---- MODULE Spec2Model ----
(***************************************************************************)
(* Model of scripts/video-gen.py: the batch loop over narration files      *)
(* (__main__), one render job (create_youtube_short) with its media        *)
(* handles, temporary image directory and tracking log, and the per-frame  *)
(* compositor (draw_elements_on_frame).                                     *)
(*                                                                         *)
(* Time is counted in whole seconds.  Footage durations are multiples of   *)
(* five seconds, so that 0.8 * F is a whole number and the arithmetic of   *)
(* the segment selector is exact.  The tolerance 0.01 s of the end-time    *)
(* clamp is smaller than one unit: for whole numbers end > F + 0.01 is     *)
(* end > F.                                                                *)
(***************************************************************************)
EXTENDS Integers, Sequences, FiniteSets, TLC

\* ------------------------------------------------------------- bounds
MaxFootage == 2        \* footage lasts 5 * k seconds, k in 1..MaxFootage
MaxAudio == 1          \* short narrations last 1..MaxAudio seconds
NumFiles == 2          \* .mp3 files found by os.walk
MaxUrls == 1           \* image URLs of one article
MaxCues == 2           \* cues of one transcript
MaxCueTime == 2        \* cue times lie in 0..MaxCueTime
MaxImages == 3         \* downloaded images of a job, when the cycle is checked
MaxClip == 6           \* narration of such a job, in seconds
MaxText == 6           \* characters of a text to wrap
MaxWidth == 4          \* max_width lies in 0..MaxWidth
MaxBlocks == 2         \* blocks of a cue file, when the parser is checked
MaxHours == 1          \* hours of a time stamp, when the round trip is checked
MaxSide == 6           \* width and height of the footage, in pixels
MaxTarget == 3         \* width and height of the target, in pixels
NumWorkers == 2        \* workers of create_youtube_short running at once
MaxTitle == 3          \* characters of a title
MaxTitleLines == 5     \* lines the title wraps to
MaxSubtitleLines == 3  \* lines the active cue wraps to
MaxOverlaySide == 2    \* width and height of a downloaded image, in pixels
MaxWords == 6          \* aligned words of a narration
MaxImageUrls == 3      \* image URLs of an article

VARIABLES
    \* ---- __main__
    mpc,                      \* position of the batch loop
    idx,                      \* index of the current audio file
    audio_files,              \* titles of the .mp3 files, in os.walk order
    processed_shorts_titles,  \* set read from the tracking file at start
    tracking_log,             \* lines appended to the tracking file by this run
    results,                  \* history: the value every call of create_youtube_short returned
    \* ---- environment
    footage_duration,         \* duration of the footage file
    temp_files,               \* files in TEMP_IMAGE_DIRECTORY: <<job, url>>
    output_written,           \* jobs whose output file was written
    \* ---- create_youtube_short
    pc,                       \* position inside create_youtube_short
    image_urls,               \* number of URLs passed to the job
    subtitles,                \* cue sequence returned by parse_srt
    handles,                  \* clip variable -> "unbound" | "open" | "closed"
    audio_duration,
    full_video_duration,
    actual_max_start_time,
    random_start_time,
    end_time,
    selected,                 \* history: a segment was selected in this job
    downloaded_image_paths,
    downloads,                \* history: download_image calls of this job
    frame_no,                 \* frames composited so far by write_videofile
    frame,                    \* the last composited frame
    short_created,            \* return value of create_youtube_short
    \* ---- dynamic_wrap_text
    text,                     \* the text to wrap, a sequence of characters
    max_width,
    lines,                    \* the lines returned
    \* ---- the compositor called again and again
    rendered,                 \* the frames composited so far
    \* ---- parse_srt
    srt_blocks,               \* the blocks the cue file was written from
    srt_file,                 \* the cue file: whether it exists, and its lines
    \* ---- srt_time_to_seconds, format_time_for_srt
    time_str,                 \* a time stamp HH:MM:SS,mmm
    seconds,                  \* the float it is converted to
    formatted,                \* the time stamp the float is formatted to
    \* ---- the crop to the target aspect ratio
    original_size,            \* << original_width, original_height >>
    target_size,              \* << target_width, target_height >>
    crop_box,                 \* x1, y1, width and height given to crop
    final_size,               \* final_clip.size
    \* ---- two workers of create_youtube_short
    wpc,                      \* position of each worker in create_youtube_short
    wpaths,                   \* downloaded_image_paths of each worker
    wframes,                  \* for each worker, the images of the frames composited
    \* ---- file names derived from a title
    original_title,           \* title of the scraped article
    text_filename,            \* file name of the narration text
    audio_filename,           \* file name of the narration audio
    article_title,            \* title the video stage takes from the audio file name
    output_filename,          \* file name of the video
    description_filename,     \* file name the uploader looks for
    \* ---- the layout of one frame
    title_line_count,         \* lines the title wraps to
    overlay,                  \* the image of the frame: none, one that fails to load, or its size
    subtitle_line_widths,     \* measured width of each line of the active cue, in pixels
    frame_layout,             \* where the frame's layers were drawn, in tenths of a pixel
    \* ---- the cues of an alignment
    words_with_timestamps,    \* the aligned words, times in milliseconds
    srt_entries,              \* the cues create_srt_from_alignment wrote
    \* ---- the image URLs of an article file
    scraped_image_urls,       \* the image URLs the scraper found
    article_content,          \* the text of the article file
    extracted_urls            \* the URLs the video stage reads from it

\* the variables of the further functions and scenarios checked on their own,
\* group by group
workerVars == << wpc, wpaths, wframes >>
nameVars == << original_title, text_filename, audio_filename, article_title, output_filename, description_filename >>
layoutVars == << title_line_count, overlay, subtitle_line_widths, frame_layout >>
alignVars == << words_with_timestamps, srt_entries >>
articleVars == << scraped_image_urls, article_content, extracted_urls >>
extraVars == << workerVars, nameVars, layoutVars, alignVars, articleVars >>

vars == << mpc, idx, audio_files, processed_shorts_titles, tracking_log, results,
           footage_duration, temp_files, output_written,
           pc, image_urls, subtitles, handles, audio_duration, full_video_duration,
           actual_max_start_time, random_start_time, end_time, selected,
           downloaded_image_paths, downloads, frame_no, frame, short_created,
           text, max_width, lines, rendered, srt_blocks, srt_file,
           time_str, seconds, formatted,
           original_size, target_size, crop_box, final_size, extraVars >>

\* __main__ but for its position
batchVars == << idx, audio_files, processed_shorts_titles, tracking_log, results >>

\* the arguments and results of the functions that are also checked on their own
pureVars == << text, max_width, lines, rendered, srt_blocks, srt_file,
           time_str, seconds, formatted,
           original_size, target_size, crop_box, final_size, extraVars >>

mainVars == << mpc, idx, audio_files, processed_shorts_titles, tracking_log, results >>
envVars == << footage_duration, temp_files, output_written >>
segVars == << audio_duration, full_video_duration, actual_max_start_time,
              random_start_time, end_time, selected >>
imgVars == << downloaded_image_paths, downloads >>
frameVars == << frame_no, frame >>

\* ------------------------------------------------------------- domains
Titles == {"t1", "t2"}
Texts == {"", "a", "b"}
ClipNames == <<"audio_clip", "main_video_clip", "video_clip", "cropped_clip", "final_clip">>
ClipSet == {ClipNames[i] : i \in 1..Len(ClipNames)}

FootageDurations == {5 * k : k \in 1..MaxFootage}
\* narrations: short ones, and ones around the footage duration
AudioDurations(F) == (1..MaxAudio) \cup {F, F + 1}

Min(a, b) == IF a <= b THEN a ELSE b

\* ---------------------------------------------------- segment selector
\* video-gen.py:260  full_video_duration * 0.8
MaxStartTimeBasedOn80Percent(F) == (F * 8) \div 10

\* the narration is not subtracted
MaxPossibleStartTimeForAudioFit_NoAudio(F, A) == F

\* video-gen.py:261  full_video_duration - audio_duration
MaxPossibleStartTimeForAudioFit(F, A) == F - A

\* the 80 % limit alone, without the fit of the narration
ActualMaxStartTime_NoFit(F, A) == MaxStartTimeBasedOn80Percent(F)

\* video-gen.py:263
ActualMaxStartTime(F, A) ==
    Min(MaxStartTimeBasedOn80Percent(F), MaxPossibleStartTimeForAudioFit(F, A))

\* the guard is off by one second: a narration one second too long passes
DurationMismatch_Late(m) == m < -1

\* the guard also rejects footage exactly as long as the narration
DurationMismatch_AtZero(m) == m <= 0

\* video-gen.py:265  the guard of the duration-mismatch return
DurationMismatch(m) == m < 0

\* the draw ranges over the whole footage
StartTimes_WholeFootage(m, F, A) ==
    IF m = 0 /\ F > A THEN {0} ELSE 0..F

\* video-gen.py:271-275  the values random_start_time can take: 0 in the
\* "video is short" branch, otherwise any point of random.uniform(0, m),
\* which lies between its two arguments whichever is the larger
StartTimes(m, F, A) ==
    IF m = 0 /\ F > A THEN {0}
    ELSE IF m >= 0 THEN 0..m ELSE m..0

\* video-gen.py:277-280  end_time, clamped to the footage when it runs past it
EndTime(S, A, F) ==
    IF S + A > F THEN F ELSE S + A

\* --------------------------------------------------------- compositor
Cue(s, e, x) == [start |-> s, end |-> e, text |-> x]
Cues == {Cue(s, e, x) : s \in 0..MaxCueTime, e \in 0..MaxCueTime, x \in Texts}

RECURSIVE SeqsUpTo(_, _)
SeqsUpTo(S, n) ==
    IF n = 0 THEN {<<>>}
    ELSE LET shorter == SeqsUpTo(S, n - 1)
         IN  shorter \cup {Append(q, x) : q \in {r \in shorter : Len(r) = n - 1}, x \in S}

\* the end of a cue is taken as inclusive
CueActive_EndInclusive(sub, t) == sub.start <= t /\ t <= sub.end

\* video-gen.py:419  the test that makes a cue the active one
CueActive(sub, t) == sub.start <= t /\ t < sub.end

\* video-gen.py:417-423  current_subtitle_text: the loop over the cues from
\* position i on, left by break at the first active cue
RECURSIVE CurrentSubtitleText(_, _, _)
CurrentSubtitleText(subs, t, i) ==
    IF i > Len(subs) THEN ""
    ELSE IF CueActive(subs[i], t) THEN subs[i].text
    ELSE CurrentSubtitleText(subs, t, i + 1)

\* the quotient is rounded up
ImageIndex_Ceil(t, A, N) == ((t * N + A - 1) \div A) % N

\* video-gen.py:376  int(t / image_duration_per_clip) % len(paths), with
\* image_duration_per_clip = A / N (line 322): floor(t / (A / N)) = floor(t * N / A)
ImageIndex(t, A, N) == ((t * N) \div A) % N

\* video-gen.py:329-490  what one call draws on the base frame at time t:
\* the image shown (0 when there is none, else its position in the list),
\* the subtitle text and whether a scrim is drawn (one per wrapped line,
\* and a non-empty cue text wraps to at least one line)
\* video-gen.py:380, 402  the image is opened from its file at every call;
\* when that raises (the file is not in storage) nothing is pasted
draw_elements_on_frame(t, subs, paths, A, files) ==
    LET current_subtitle_text == CurrentSubtitleText(subs, t, 1)
        image_index == ImageIndex(t, A, Len(paths)) + 1
    IN  [ t        |-> t,
          image    |-> IF Len(paths) = 0 THEN 0
                       ELSE IF paths[image_index] \in files THEN image_index
                       ELSE 0,
          subtitle |-> current_subtitle_text,
          scrim    |-> current_subtitle_text # "" ]

\* ------------------------------------------------- aspect normalizer
\* int(a / b) for b > 0: the quotient cut towards zero
TruncDiv(a, b) == IF a >= 0 THEN a \div b ELSE -((-a) \div b)

\* the height is always the one cropped
Wider_Never(w, h, tw, th) == FALSE

\* video-gen.py:291-294  original_aspect_ratio > target_aspect_ratio, that
\* is w / h > tw / th
Wider(w, h, tw, th) == w * th > tw * h

\* no crop computed yet
NoBox == [x1 |-> 0, y1 |-> 0, width |-> 0, height |-> 0]

\* video-gen.py:294-307  the arguments of video_clip.crop
CropBox(w, h, tw, th) ==
    IF Wider(w, h, tw, th)
    THEN LET new_width == TruncDiv(h * tw, th)
         IN  [x1 |-> TruncDiv(w - new_width, 2), y1 |-> 0,
              width |-> new_width, height |-> h]
    ELSE LET new_height == TruncDiv(w * th, tw)
         IN  [x1 |-> 0, y1 |-> TruncDiv(h - new_height, 2),
              width |-> w, height |-> new_height]

\* ------------------------------------------------------ text layout
\* a text is a sequence of characters; "b" is a wide letter
Chars == {"a", "b", " "}

\* video-gen.py:207-211  the width of the bounding box of a line under the
\* font: "b" is twice as wide as "a" and the space
CharWidth(c) == IF c = "b" THEN 2 ELSE 1

RECURSIVE textbbox(_)
textbbox(s) == IF s = <<>> THEN 0 ELSE CharWidth(Head(s)) + textbbox(Tail(s))

RECURSIVE SplitFrom(_, _, _)
\* the words of s from position i on, word holding the characters gathered
\* since the last white space
SplitFrom(s, i, word) ==
    IF i > Len(s) THEN (IF word = <<>> THEN <<>> ELSE << word >>)
    ELSE IF s[i] = " "
         THEN (IF word = <<>> THEN <<>> ELSE << word >>) \o SplitFrom(s, i + 1, <<>>)
    ELSE SplitFrom(s, i + 1, Append(word, s[i]))

\* video-gen.py:200  text.split(): the runs of characters between white space
split(s) == SplitFrom(s, 1, <<>>)

RECURSIVE join_NoSpace(_)
\* the words are put side by side
join_NoSpace(ws) == IF ws = <<>> THEN <<>> ELSE Head(ws) \o join_NoSpace(Tail(ws))

RECURSIVE join(_)
\* video-gen.py:206, 220, 224  " ".join(words)
join(ws) ==
    IF ws = <<>> THEN <<>>
    ELSE IF Len(ws) = 1 THEN Head(ws)
    ELSE Head(ws) \o << " " >> \o join(Tail(ws))

\* every line is taken to fit
Fits_Always(test_line, mw) == TRUE

\* no test line fits: every word starts a line
Fits_Never(test_line, mw) == FALSE

\* video-gen.py:214  test_line_width <= max_width
Fits(test_line, mw) == textbbox(test_line) <= mw

RECURSIVE WrapWords(_, _, _, _, _)
\* video-gen.py:205-225  the loop over the words from position i on, and the
\* flush of the last line
WrapWords(ws, i, current_line, ls, mw) ==
    IF i > Len(ws)
    THEN (IF current_line # <<>> THEN Append(ls, join(current_line)) ELSE ls)
    ELSE LET word == ws[i]
             test_line == join(Append(current_line, word))
         IN  IF Fits(test_line, mw)
             THEN WrapWords(ws, i + 1, Append(current_line, word), ls, mw)
             ELSE IF current_line = <<>>
                  THEN WrapWords(ws, i + 1, <<>>, Append(ls, word), mw)
                  ELSE WrapWords(ws, i + 1, << word >>, Append(ls, join(current_line)), mw)

\* video-gen.py:190-226
dynamic_wrap_text(txt, mw) ==
    IF txt = <<>> THEN <<>> ELSE WrapWords(split(txt), 1, <<>>, <<>>, mw)

\* ------------------------------------------------------ media handles
Unbound == [c \in ClipSet |-> "unbound"]

\* clip.close() returned normally for the clips numbered in ks
Closed(h, ks) ==
    [c \in ClipSet |-> IF \E k \in ks : ClipNames[k] = c /\ h[c] # "unbound"
                       THEN "closed" ELSE h[c]]

\* video-gen.py:530-534  the handler closes every bound clip in the order of
\* ClipNames inside one try: the first close that raises (clip k) skips the
\* rest; k = 0 when no close raises
HandlerCloses(h, k) ==
    IF k = 0 THEN Closed(h, 1..Len(ClipNames)) ELSE Closed(h, 1..(k - 1))

\* ---------------------------------------------- temporary image files
\* nothing is unlinked
clean_temp_images_nothing(files) == files

\* video-gen.py:103-113  clean_temp_images: every file of the directory is
\* unlinked, whether or not the job kept its path
clean_temp_images(files) == {}

\* video-gen.py:71-100  the outcomes of one download_image call: the file is
\* written and its path returned ("ok"), nothing is written and None is
\* returned (HTTP error, SVG: "none"), or writing fails part-way and None is
\* returned with the file left behind ("partial")
DownloadOutcomes == {"ok", "none", "partial"}

RECURSIVE PathsOf_All(_, _, _)
\* a path is appended for every URL, downloaded or not
PathsOf_All(job, outcome, u) ==
    IF u > Len(outcome) THEN <<>>
    ELSE << <<job, u>> >> \o PathsOf_All(job, outcome, u + 1)

RECURSIVE PathsOf(_, _, _)
\* video-gen.py:316-319  the paths appended, in URL order
PathsOf(job, outcome, u) ==
    IF u > Len(outcome) THEN <<>>
    ELSE (IF outcome[u] = "ok" THEN << <<job, u>> >> ELSE <<>>)
         \o PathsOf(job, outcome, u + 1)

FilesOf(job, outcome) ==
    {<<job, u>> : u \in {v \in 1..Len(outcome) : outcome[v] # "none"}}

\* ------------------------------------------------------------ parse_srt
\* times are counted in milliseconds: 3.5 s is 3500
Digits == << "0", "1", "2", "3", "4", "5", "6", "7", "8", "9" >>
IsDigit(c) == \E d \in 1..10 : Digits[d] = c
DigitVal(c) == (CHOOSE d \in 1..10 : Digits[d] = c) - 1

RECURSIVE DigitsVal(_)
\* the number written by a run of digits
DigitsVal(s) ==
    IF s = <<>> THEN 0 ELSE 10 * DigitsVal(SubSeq(s, 1, Len(s) - 1)) + DigitVal(s[Len(s)])

AllDigits(s) == s # <<>> /\ \A i \in 1..Len(s) : IsDigit(s[i])

RECURSIVE strip(_)
\* video-gen.py:130  line.strip(): the white space at both ends is dropped
strip(s) ==
    IF s = <<>> THEN <<>>
    ELSE IF Head(s) = " " THEN strip(Tail(s))
    ELSE IF s[Len(s)] = " " THEN strip(SubSeq(s, 1, Len(s) - 1))
    ELSE s

\* the result of an expression that may raise ValueError or IndexError
Raised == [raised |-> TRUE, value |-> 0]
Value(v) == [raised |-> FALSE, value |-> v]

\* video-gen.py:134  int(current_block[0])
int(s) == IF AllDigits(s) THEN Value(DigitsVal(s)) ELSE Raised

RECURSIVE SplitOnFrom(_, _, _, _)
\* the parts of s from position i on, part holding the characters gathered
\* since the last separator
SplitOnFrom(s, sep, i, part) ==
    IF i > Len(s) THEN << part >>
    ELSE IF i + Len(sep) - 1 <= Len(s) /\ SubSeq(s, i, i + Len(sep) - 1) = sep
         THEN << part >> \o SplitOnFrom(s, sep, i + Len(sep), <<>>)
    ELSE SplitOnFrom(s, sep, i + 1, Append(part, s[i]))

\* video-gen.py:136, 139  str.split(sep): empty parts are kept
SplitOn(s, sep) == SplitOnFrom(s, sep, 1, <<>>)

\* video-gen.py:139  str.replace(a, b) for single characters
replace(s, a, b) == [i \in 1..Len(s) |-> IF s[i] = a THEN b ELSE s[i]]

\* the digits after the decimal point are dropped
float_Whole(s) ==
    LET parts == SplitOn(strip(s), << "." >>)
    IN  IF Len(parts) \in {1, 2} /\ AllDigits(parts[1])
        THEN Value(1000 * DigitsVal(parts[1]))
        ELSE Raised

\* video-gen.py:141  float(part) of "SS" or "SS.f", f of one to three
\* digits, in milliseconds; anything else raises ValueError
float(s) ==
    LET parts == SplitOn(strip(s), << "." >>)
        pad(f) == IF Len(f) = 1 THEN 100 ELSE IF Len(f) = 2 THEN 10 ELSE 1
    IN  IF Len(parts) = 1 /\ AllDigits(parts[1])
        THEN Value(1000 * DigitsVal(parts[1]))
        ELSE IF /\ Len(parts) = 2 /\ AllDigits(parts[1]) /\ AllDigits(parts[2])
                /\ Len(parts[2]) <= 3
        THEN Value(1000 * DigitsVal(parts[1]) + pad(parts[2]) * DigitsVal(parts[2]))
        ELSE Raised

\* video-gen.py:138-143  srt_time_to_seconds
srt_time_to_seconds(time_str_val) ==
    LET parts == SplitOn(replace(time_str_val, ",", "."), << ":" >>)
    IN  IF Len(parts) = 3
        THEN LET h == float(parts[1])
                 mi == float(parts[2])
                 s == float(parts[3])
             IN  IF h.raised \/ mi.raised \/ s.raised THEN Raised
                 ELSE Value(h.value * 3600 + mi.value * 60 + s.value)
        ELSE Value(0)

\* video-gen.py:133-156, 161-183  the try of a block: the cue appended, or
\* the exception caught
ParseBlock(current_block) ==
    LET sequence_number == int(current_block[1])
    IN  IF sequence_number.raised THEN Raised
        ELSE IF Len(current_block) < 2 THEN Raised
        ELSE LET times == SplitOn(current_block[2], << " ", "-", "-", ">", " " >>)
             IN  IF Len(times) # 2 THEN Raised
                 ELSE LET start_seconds == srt_time_to_seconds(times[1])
                          end_seconds == srt_time_to_seconds(times[2])
                      IN  IF start_seconds.raised \/ end_seconds.raised THEN Raised
                          ELSE Value(Cue(start_seconds.value, end_seconds.value,
                                         join(SubSeq(current_block, 3, Len(current_block)))))

\* video-gen.py:149-158  subtitles.append, skipped when the block raised
Appended(subs, current_block) ==
    LET r == ParseBlock(current_block)
    IN  IF r.raised THEN subs ELSE Append(subs, r.value)

RECURSIVE ParseLines(_, _, _, _)
\* video-gen.py:129-183  the loop over the lines from position i on, and the
\* block left at the end of the file
ParseLines(ls, i, current_block, subs) ==
    IF i > Len(ls)
    THEN (IF current_block # <<>> THEN Appended(subs, current_block) ELSE subs)
    ELSE LET line == strip(ls[i])
         IN  IF line = <<>>
             THEN (IF current_block # <<>>
                   THEN ParseLines(ls, i + 1, <<>>, Appended(subs, current_block))
                   ELSE ParseLines(ls, i + 1, <<>>, subs))
             ELSE ParseLines(ls, i + 1, Append(current_block, line), subs)

\* a cue file: whether os.path.exists holds, and its lines without their
\* line ends
NoFile == [exists |-> FALSE, lines |-> <<>>]
File(ls) == [exists |-> TRUE, lines |-> ls]

\* a file without lines, or no file, gives a cue without text
parse_srt_Placeholder(f) ==
    IF f.lines = <<>> THEN << Cue(0, 0, "") >> ELSE ParseLines(f.lines, 1, <<>>, <<>>)

\* video-gen.py:124  os.path.exists(srt_filepath)
Exists(f) == f.exists

\* video-gen.py:117-185
parse_srt(f) == IF ~Exists(f) THEN <<>> ELSE ParseLines(f.lines, 1, <<>>, <<>>)

\* ---- the cue files the parser is checked on
TwoDigits(n) == << Digits[((n \div 10) % 10) + 1], Digits[(n % 10) + 1] >>
ThreeDigits(n) == << Digits[((n \div 100) % 10) + 1] >> \o TwoDigits(n)

\* HH:MM:SS,mmm of the stamp << H, M, S, ms >>
StampStr(st) ==
    TwoDigits(st[1]) \o << ":" >> \o TwoDigits(st[2]) \o << ":" >> \o TwoDigits(st[3])
        \o << "," >> \o ThreeDigits(st[4])

Millis(st) == (st[1] * 3600 + st[2] * 60 + st[3]) * 1000 + st[4]

\* the time-range line of a block: as it should be, without the arrow, with
\* two ':' fields only (MM:SS,mmm), or with letters for the seconds
RangeKinds == {"good", "no_arrow", "two_fields", "junk_field"}

RangeLine(kind, a, b) ==
    IF kind = "good" THEN StampStr(a) \o << " ", "-", "-", ">", " " >> \o StampStr(b)
    ELSE IF kind = "no_arrow" THEN StampStr(a) \o << " " >> \o StampStr(b)
    ELSE IF kind = "two_fields"
    THEN SubSeq(StampStr(a), 4, 12) \o << " ", "-", "-", ">", " " >>
             \o SubSeq(StampStr(b), 4, 12)
    ELSE SubSeq(StampStr(a), 1, 6) \o << "x", "x" >> \o SubSeq(StampStr(a), 9, 12)
             \o << " ", "-", "-", ">", " " >> \o StampStr(b)

HelloThere == << "H", "e", "l", "l", "o", " ", "t", "h", "e", "r", "e" >>

\* a block: its index line (an integer or a letter), its time range and its
\* text lines
BlockDescs ==
    { [index |-> ix, range |-> k, from |-> p[1], to |-> p[2], text |-> p[3]] :
        ix \in {"int", "junk"}, k \in RangeKinds,
        p \in { << <<0, 0, 1, 0>>, <<0, 0, 3, 500>>, << HelloThere >> >>,
                << <<1, 2, 3, 4>>, <<1, 2, 59, 999>>, << << "a" >>, << "b", "a" >> >> >> } }

BlockLines(b) ==
    << IF b.index = "int" THEN << "1" >> ELSE << "x" >>, RangeLine(b.range, b.from, b.to) >>
        \o b.text

RECURSIVE FileLines(_, _)
\* the blocks one after the other, a blank line between two of them and,
\* when trailing holds, one after the last
FileLines(blocks, trailing) ==
    IF blocks = <<>> THEN <<>>
    ELSE BlockLines(Head(blocks))
         \o (IF Len(blocks) > 1 \/ trailing THEN << <<>> >> ELSE <<>>)
         \o FileLines(Tail(blocks), trailing)

\* -------------------------------------------------- format_time_for_srt
\* a float of the program: the number of milliseconds it stands for, and the
\* sign of the error that the double arithmetic on it leaves in
\* (seconds_remainder - int(seconds_remainder)) * 1000
Double(ms, err) == [ms |-> ms, err |-> err]

\* video-gen.py:141-142  the floats that the arithmetic on a decimal value
\* can give: k/8 s is a double and the arithmetic on it is exact; any other
\* value of milliseconds is not a double, and the product comes out below
\* the whole number, on it or above it
Doubles(ms) ==
    IF ms % 125 = 0 THEN { Double(ms, 0) } ELSE { Double(ms, e) : e \in {-1, 0, 1} }

\* transcript-gen.py:21-27  format_time_for_srt: int() cuts the product
\* towards zero
format_time_for_srt(secs) ==
    LET whole == secs.ms \div 1000
        hours == whole \div 3600
        minutes == (whole % 3600) \div 60
        seconds_remainder == whole % 60
        milliseconds == IF secs.err < 0 THEN (secs.ms % 1000) - 1 ELSE secs.ms % 1000
    IN  TwoDigits(hours) \o << ":" >> \o TwoDigits(minutes) \o << ":" >>
            \o TwoDigits(seconds_remainder) \o << "," >> \o ThreeDigits(milliseconds)

\* ------------------------------------------- image URLs of an article
\* The text of an article file is a sequence of characters in which the
\* words "Title:", "Images:", "http://" and "https://" stand as one symbol.

RECURSIVE JoinWith(_, _)
\* sep.join(parts)
JoinWith(sep, parts) ==
    IF parts = <<>> THEN <<>>
    ELSE IF Len(parts) = 1 THEN parts[1]
    ELSE parts[1] \o sep \o JoinWith(sep, Tail(parts))

\* scraper.py:59-87  the file save_article_to_file writes: the title line
\* and, when there are image URLs, the line of the URLs joined by ", "
ArticleFile(image_urls_) ==
    << "Title:", " ", "a", "\n" >>
    \o (IF image_urls_ = <<>> THEN <<>>
        ELSE << "Images:", " " >> \o JoinWith(<< ",", " " >>, image_urls_) \o << "\n" >>)

\* video-gen.py:61  re.search(r"Images:\s*(.*)"): what follows the first
\* "Images:" up to the end of its line, white space at its start skipped;
\* no match gives NoMatch
NoMatch == << "no match" >>
ImagesGroup(content) ==
    LET at == {i \in 1..Len(content) : content[i] = "Images:"}
    IN  IF at = {} THEN NoMatch
        ELSE LET i == CHOOSE k \in at : \A j \in at : k <= j
                 from == CHOOSE k \in (i + 1)..(Len(content) + 1) :
                            /\ \A j \in (i + 1)..(k - 1) : content[j] \in {" ", "\n"}
                            /\ k <= Len(content) => content[k] \notin {" ", "\n"}
                 to == CHOOSE k \in from..(Len(content) + 1) :
                            /\ \A j \in from..(k - 1) : content[j] # "\n"
                            /\ k <= Len(content) => content[k] = "\n"
             IN  SubSeq(content, from, to - 1)

\* video-gen.py:66  url.startswith("http://") or url.startswith("https://")
IsUrl(url) == url # <<>> /\ url[1] \in {"http://", "https://"}

\* video-gen.py:58-68
extract_image_urls_from_article(content) ==
    IF ImagesGroup(content) = NoMatch THEN <<>>
    ELSE SelectSeq(split(strip(ImagesGroup(content))), IsUrl)

\* ------------------------------------------------- cues of an alignment
\* transcript-gen.py:41
WORD_GROUP_LIMIT == 5

\* transcript-gen.py:42  0.3 seconds, in milliseconds
PAUSE_THRESHOLD == 300

\* transcript-gen.py:73  re.search(r'[.!?]', word)
HasPunctuation(word) == \E i \in 1..Len(word) : word[i] \in {".", "!", "?"}

\* a pause does not end a cue
should_break_NoPause(ws, i, current_line_words) ==
    \/ i = Len(ws)
    \/ Len(current_line_words) >= WORD_GROUP_LIMIT
    \/ HasPunctuation(ws[i].word)

\* transcript-gen.py:60-75  should_break, once word i has joined the line
should_break(ws, i, current_line_words) ==
    \/ i = Len(ws)
    \/ Len(current_line_words) >= WORD_GROUP_LIMIT
    \/ (i < Len(ws) /\ ws[i + 1].time_start - ws[i].time_end > PAUSE_THRESHOLD)
    \/ HasPunctuation(ws[i].word)

RECURSIVE GroupWords(_, _, _, _, _, _)
\* transcript-gen.py:47-93  the loop over the words from word i on; an entry
\* holds the number, the two times handed to format_time_for_srt and the
\* words of the text line
GroupWords(ws, i, current_line_words, current_line_start_time, sequence_number, entries) ==
    IF i > Len(ws) THEN entries
    ELSE LET start == IF current_line_words = <<>> THEN ws[i].time_start
                      ELSE current_line_start_time
             line == Append(current_line_words, ws[i].word)
         IN  IF should_break(ws, i, line)
             THEN GroupWords(ws, i + 1, <<>>, -1, sequence_number + 1,
                             Append(entries, [number |-> sequence_number,
                                              start |-> start,
                                              end |-> ws[i].time_end,
                                              words |-> line]))
             ELSE GroupWords(ws, i + 1, line, start, sequence_number, entries)

\* transcript-gen.py:29-99
create_srt_from_alignment(ws) == GroupWords(ws, 1, <<>>, -1, 1, <<>>)

\* ------------------------------------------------------- frame layout
\* video-gen.py:36-37
TARGET_WIDTH == 1080
TARGET_HEIGHT == 1920

\* Lengths of the layout are kept in tenths of a pixel, which holds every
\* product of the code exactly (target_height * 0.02 is 38.4 pixels).
Px(n) == 10 * n

\* size * (permille / 1000), in tenths of a pixel
Times(size, permille) == (size * permille) \div 100

\* int(x) of a length that is not negative
Whole(x) == (x \div 10) * 10

Max2(a, b) == IF a >= b THEN a ELSE b
Min2(a, b) == IF a <= b THEN a ELSE b

\* video-gen.py:344  dynamic_fontsize, and the height textbbox measures for
\* a line of the title: that of the font
dynamic_fontsize == Whole(Times(TARGET_HEIGHT, 55))

\* video-gen.py:405  subtitle_font_size, the height of a subtitle line
subtitle_font_size == Whole(Times(TARGET_HEIGHT, 50))

\* video-gen.py:370, 437  int(target_height * 0.005), added below a line
LineGap == Whole(Times(TARGET_HEIGHT, 5))

\* video-gen.py:354-371  total_title_height of n lines
TotalTitleHeight(n) == n * (dynamic_fontsize + LineGap)

\* video-gen.py:354, 370  current_y_for_text after the title lines
TitleBottom(n) == Times(TARGET_HEIGHT, 20) + TotalTitleHeight(n)

\* video-gen.py:383-391  resized_img_h: the image scaled to fit a square of
\* int(target_width * 0.96)
ResizedHeight(o) ==
    Px((o.h * (Whole(Times(TARGET_WIDTH, 960)) \div 10)) \div Max2(o.w, o.h))

\* video-gen.py:395  image_y_pos
ImageYPos(n) ==
    Whole(Times(TARGET_HEIGHT, 20) + TotalTitleHeight(n) + Times(TARGET_HEIGHT, 30))

\* the image leaves the subtitles where the title left them
ImageBottomY_Title(n, o) == TitleBottom(n)

\* video-gen.py:374, 400  image_bottom_y: below the title, and below the
\* image and its buffer when one was pasted
ImageBottomY(n, o) ==
    IF o.kind = "drawn"
    THEN ImageYPos(n) + ResizedHeight(o) + Whole(Times(TARGET_HEIGHT, 30))
    ELSE TitleBottom(n)

\* video-gen.py:432-438  total_subtitle_height of s lines
TotalSubtitleHeight(s) == s * (subtitle_font_size + LineGap)

\* video-gen.py:440-451  current_y_for_subtitle of the first line
SubtitleY(n, o, s) ==
    LET desired == Px(TARGET_HEIGHT) - Whole(Times(TARGET_HEIGHT, 180))
                     - TotalSubtitleHeight(s)
        after == ImageBottomY(n, o) + Whole(Times(TARGET_HEIGHT, 20))
    IN  IF desired < after THEN after ELSE desired

\* video-gen.py:463-481  the rectangle drawn behind a subtitle line of the
\* given width at height y
BackgroundBox(y, line_width) ==
    LET x_pos == (Px(TARGET_WIDTH) - Px(line_width)) \div 2
        padding_x == Whole(Times(TARGET_WIDTH, 10))
        padding_y == Whole(Times(TARGET_HEIGHT, 5))
    IN  [x1 |-> Max2(0, x_pos - padding_x),
         y1 |-> Max2(0, y - padding_y),
         x2 |-> Min2(Px(TARGET_WIDTH), x_pos + Px(line_width) + padding_x),
         y2 |-> Min2(Px(TARGET_HEIGHT), y + subtitle_font_size + padding_y)]

\* video-gen.py:340-487  where draw_elements_on_frame puts the title, the
\* image and the lines of the active cue
Layout(n, o, widths) ==
    LET y == SubtitleY(n, o, Len(widths))
    IN  [drawn |-> TRUE,
         title_bottom |-> TitleBottom(n),
         image_drawn |-> (o.kind = "drawn"),
         image_top |-> IF o.kind = "drawn" THEN ImageYPos(n) ELSE 0,
         image_bottom |-> IF o.kind = "drawn"
                          THEN ImageYPos(n) + ResizedHeight(o) ELSE 0,
         subtitle_y |-> y,
         boxes |-> [k \in 1..Len(widths) |->
                      BackgroundBox(y + (k - 1) * (subtitle_font_size + LineGap),
                                    widths[k])]]

\* ---------------------------------------------------------- file names
\* the characters of a title: a letter, the apostrophe, the bar, the slash
\* and the dot
TitleChars == {"a", "'", "|", "/", "."}

\* video-gen.py:494  the class of the category pattern [\\/*?:"<>|], which is
\* also the class of the title patterns of ai-api-calls.py
UnsafeChars == {"\\", "/", "*", "?", ":", "\"", "<", ">", "|"}

\* video-gen.py:501  the class of the title pattern [\\/*?:"<>\'"]
UnsafeTitleChars == {"\\", "/", "*", "?", ":", "\"", "<", ">", "'"}

\* re.sub(class, "", s): the characters of the class are dropped
re_sub(class, s) == SelectSeq(s, LAMBDA c : c \notin class)

\* ai-api-calls.py:158, 183  sanitized_title of the text and audio stages
SanitizedTitle(title) == re_sub(UnsafeChars, replace(title, "/", "_"))

\* video-gen.py:501  sanitized_title of the video stage
SanitizedTitleVideo(title) == re_sub(UnsafeTitleChars, replace(title, "/", "_"))

RephrasedSuffix ==
    << "_", "r", "e", "p", "h", "r", "a", "s", "e", "d", ".", "t", "x", "t" >>
ShortSuffix == << "_", "s", "h", "o", "r", "t" >>

\* os.path.splitext(name)[0]: the name up to its last dot, unless that dot
\* is one of the leading dots of the name
splitext(name) ==
    LET dots == {i \in 1..Len(name) : name[i] = "."}
        last == CHOOSE i \in dots : \A j \in dots : j <= i
    IN  IF dots = {} THEN name
        ELSE IF \A j \in 1..last : name[j] = "." THEN name
        ELSE SubSeq(name, 1, last - 1)

\* str.removesuffix(suffix)
removesuffix(s, suffix) ==
    IF Len(s) >= Len(suffix) /\ SubSeq(s, Len(s) - Len(suffix) + 1, Len(s)) = suffix
    THEN SubSeq(s, 1, Len(s) - Len(suffix))
    ELSE s

\* video-gen.py:502  the file name of output_filepath
OutputFilename(title) == SanitizedTitleVideo(title) \o ShortSuffix \o << ".", "m", "p", "4" >>

\* ---------------------------------------------------------- cue files
CueSeqs == SeqsUpTo(Cues, MaxCues)

\* what parse_srt returns in the batch: nothing (file missing or empty), or
\* the cues of a transcript as the alignment stage writes them
JobCueSeqs == { parse_srt(NoFile), parse_srt(File(<<>>)), << Cue(0, 1, "a"), Cue(1, 2, "b") >> }

\* --------------------------------------------------------------- Init
\* no call of a function checked on its own
WorkerIdle ==
    /\ wpc = << >>
    /\ wpaths = << >>
    /\ wframes = << >>

NameIdle ==
    /\ original_title = <<>>
    /\ text_filename = <<>>
    /\ audio_filename = <<>>
    /\ article_title = <<>>
    /\ output_filename = <<>>
    /\ description_filename = <<>>

LayoutIdle ==
    /\ title_line_count = 0
    /\ overlay = [kind |-> "none", w |-> 0, h |-> 0]
    /\ subtitle_line_widths = <<>>
    /\ frame_layout = [drawn |-> FALSE]

AlignIdle ==
    /\ words_with_timestamps = <<>>
    /\ srt_entries = <<>>

ArticleIdle ==
    /\ scraped_image_urls = <<>>
    /\ article_content = <<>>
    /\ extracted_urls = <<>>

\* no call of the further functions, but for those of group g
ExtraIdleExcept(g) ==
    /\ TRUE
    /\ IF g = "worker" THEN TRUE ELSE WorkerIdle
    /\ IF g = "name" THEN TRUE ELSE NameIdle
    /\ IF g = "layout" THEN TRUE ELSE LayoutIdle
    /\ IF g = "align" THEN TRUE ELSE AlignIdle
    /\ IF g = "article" THEN TRUE ELSE ArticleIdle

\* the further variables are left alone, but for those of group g
ExtraUnchangedExcept(g) ==
    /\ TRUE
    /\ IF g = "worker" THEN TRUE ELSE UNCHANGED workerVars
    /\ IF g = "name" THEN TRUE ELSE UNCHANGED nameVars
    /\ IF g = "layout" THEN TRUE ELSE UNCHANGED layoutVars
    /\ IF g = "align" THEN TRUE ELSE UNCHANGED alignVars
    /\ IF g = "article" THEN TRUE ELSE UNCHANGED articleVars

WrapIdle ==
    /\ text = <<>>
    /\ max_width = 0
    /\ lines = <<>>

ParseIdle ==
    /\ srt_blocks = <<>>
    /\ srt_file = NoFile

TimeIdle ==
    /\ time_str = <<>>
    /\ seconds = Double(0, 0)
    /\ formatted = <<>>

CropIdle ==
    /\ original_size = << 0, 0 >>
    /\ target_size = << 0, 0 >>
    /\ crop_box = NoBox
    /\ final_size = << 0, 0 >>

\* no call of the functions of pureVars
FunctionsIdle ==
    /\ WrapIdle
    /\ rendered = {}
    /\ ParseIdle
    /\ TimeIdle
    /\ CropIdle

PureIdle ==
    /\ FunctionsIdle
    /\ ExtraIdleExcept("")

\* no frame composited yet
NoFrame == [t |-> -1, image |-> 0, subtitle |-> "", scrim |-> FALSE]

JobIdle ==
    /\ pc = "idle"
    /\ image_urls = 0
    /\ subtitles = <<>>
    /\ handles = Unbound
    /\ audio_duration = 0
    /\ full_video_duration = 0
    /\ actual_max_start_time = 0
    /\ random_start_time = 0
    /\ end_time = 0
    /\ selected = FALSE
    /\ downloaded_image_paths = <<>>
    /\ downloads = 0
    /\ frame_no = 0
    /\ frame = NoFrame
    /\ short_created = FALSE

Init ==
    /\ mpc = "loop"
    /\ idx = 1
    /\ audio_files \in [1..NumFiles -> Titles]
    /\ processed_shorts_titles \in {{}, {"t1"}}
    /\ tracking_log = <<>>
    /\ results = <<>>
    /\ footage_duration \in FootageDurations
    /\ temp_files \in {{}, {<<0, 1>>}}
    /\ output_written = {}
    /\ JobIdle
    /\ PureIdle

\* ----------------------------------------------------------- __main__
jobVars == << pc, image_urls, subtitles, handles, audio_duration, full_video_duration,
              actual_max_start_time, random_start_time, end_time, selected,
              downloaded_image_paths, downloads, frame_no, frame, short_created >>

\* the job's record is dropped when the loop turns to the next file
JobReset ==
    /\ pc' = "idle"
    /\ image_urls' = 0
    /\ subtitles' = <<>>
    /\ handles' = Unbound
    /\ audio_duration' = 0
    /\ full_video_duration' = 0
    /\ actual_max_start_time' = 0
    /\ random_start_time' = 0
    /\ end_time' = 0
    /\ selected' = FALSE
    /\ downloaded_image_paths' = <<>>
    /\ downloads' = 0
    /\ frame_no' = 0
    /\ frame' = NoFrame
    /\ short_created' = FALSE

\* video-gen.py:523, 269, 537-539  return r: the finally block cleans the
\* temporary directory and the caller gets r.  The locals the function only
\* read (cues, URLs, paths, segment bounds, the last frame) end with the
\* call; the state of the media handles, the durations loaded and the counts
\* of downloads and frames stay on record for the job.
Return(r) ==
    /\ temp_files' = clean_temp_images(temp_files)
    /\ short_created' = r
    /\ pc' = "returned"
    /\ mpc' = "log"
    /\ image_urls' = 0
    /\ subtitles' = <<>>
    /\ actual_max_start_time' = 0
    /\ random_start_time' = 0
    /\ end_time' = 0
    /\ downloaded_image_paths' = <<>>
    /\ frame' = NoFrame
    /\ results' = Append(results, [job |-> idx, title |-> audio_files[idx], created |-> r])
    /\ UNCHANGED << idx, audio_files, processed_shorts_titles, tracking_log >>
    /\ UNCHANGED << footage_duration, output_written >>
    /\ UNCHANGED << audio_duration, full_video_duration, selected, downloads, frame_no >>

\* video-gen.py:558-560  the title is in the set read at start: continue
SkipProcessed ==
    /\ mpc = "loop"
    /\ idx <= NumFiles
    /\ audio_files[idx] \in processed_shorts_titles
    /\ idx' = idx + 1
    /\ UNCHANGED << mpc, audio_files, processed_shorts_titles, tracking_log, results >>
    /\ UNCHANGED << envVars, jobVars >>
    /\ UNCHANGED pureVars

\* video-gen.py:552-562  the next .mp3 file is taken up
BeginFile ==
    /\ mpc = "loop"
    /\ idx <= NumFiles
    /\ audio_files[idx] \notin processed_shorts_titles
    /\ mpc' = "read_article"
    /\ UNCHANGED << idx, audio_files, processed_shorts_titles, tracking_log, results >>
    /\ UNCHANGED << envVars, jobVars >>
    /\ UNCHANGED pureVars

\* video-gen.py:564-589  the article text is read (or is missing), its image
\* URLs are extracted and create_youtube_short is called
ReadArticle ==
    /\ mpc = "read_article"
    /\ \E n \in 0..MaxUrls : image_urls' = n
    /\ mpc' = "call"
    /\ pc' = "clean"
    /\ UNCHANGED << idx, audio_files, processed_shorts_titles, tracking_log, results >>
    /\ UNCHANGED << envVars, subtitles, handles, segVars, imgVars, frameVars, short_created >>
    /\ UNCHANGED pureVars

\* video-gen.py:567-568  open() or f.read() raises (unreadable file, bytes
\* that are not UTF-8): no handler encloses the loop body
ReadArticleRaises ==
    /\ mpc = "read_article"
    /\ mpc' = "crashed"
    /\ UNCHANGED << idx, audio_files, processed_shorts_titles, tracking_log, results >>
    /\ UNCHANGED << envVars, jobVars >>
    /\ UNCHANGED pureVars

\* the title is logged whatever create_youtube_short returned
LogResult_Always ==
    /\ mpc = "log"
    /\ tracking_log' = Append(tracking_log, audio_files[idx])
    /\ idx' = idx + 1
    /\ mpc' = "loop"
    /\ JobReset
    /\ UNCHANGED << audio_files, processed_shorts_titles, results, envVars >>
    /\ UNCHANGED pureVars

\* video-gen.py:591-595  the result is logged; the loop goes on
LogResult ==
    /\ mpc = "log"
    /\ tracking_log' = IF short_created
                       THEN Append(tracking_log, audio_files[idx])
                       ELSE tracking_log
    /\ idx' = idx + 1
    /\ mpc' = "loop"
    /\ JobReset
    /\ UNCHANGED << audio_files, processed_shorts_titles, results, envVars >>
    /\ UNCHANGED pureVars

\* video-gen.py:597-598  the walk is over: the last clean_temp_images
Finish ==
    /\ mpc = "loop"
    /\ idx > NumFiles
    /\ mpc' = "done"
    /\ temp_files' = clean_temp_images(temp_files)
    /\ UNCHANGED << idx, audio_files, processed_shorts_titles, tracking_log, results >>
    /\ UNCHANGED << footage_duration, output_written, jobVars >>
    /\ UNCHANGED pureVars

\* ----------------------------------------------- create_youtube_short
Bound(h, c) == [h EXCEPT ![c] = "open"]

\* video-gen.py:244  clean_temp_images before anything else
CleanStart ==
    /\ mpc = "call" /\ pc = "clean"
    /\ temp_files' = clean_temp_images(temp_files)
    /\ pc' = "parse_srt"
    /\ UNCHANGED << mainVars, footage_duration, output_written >>
    /\ UNCHANGED << image_urls, subtitles, handles, segVars, imgVars, frameVars, short_created >>
    /\ UNCHANGED pureVars

\* video-gen.py:246  parse_srt returns the cues (none for a missing file)
ParseSrt ==
    /\ mpc = "call" /\ pc = "parse_srt"
    /\ subtitles' \in JobCueSeqs
    /\ pc' = "load_audio"
    /\ UNCHANGED << mainVars, envVars >>
    /\ UNCHANGED << image_urls, handles, segVars, imgVars, frameVars, short_created >>
    /\ UNCHANGED pureVars

\* video-gen.py:128-129  open() or the read of a line raises inside parse_srt
\* (unreadable file, bytes that are not UTF-8); the call at line 246 stands
\* before the try of line 249, so the exception leaves create_youtube_short
\* and the loop of __main__
ParseSrtRaises ==
    /\ mpc = "call" /\ pc = "parse_srt"
    /\ mpc' = "crashed"
    /\ UNCHANGED << idx, audio_files, processed_shorts_titles, tracking_log, results >>
    /\ UNCHANGED << envVars, jobVars >>
    /\ UNCHANGED pureVars

\* video-gen.py:250-251
LoadAudio ==
    /\ mpc = "call" /\ pc = "load_audio"
    /\ \E A \in AudioDurations(footage_duration) : audio_duration' = A
    /\ handles' = Bound(handles, "audio_clip")
    /\ pc' = "load_video"
    /\ UNCHANGED << mainVars, envVars >>
    /\ UNCHANGED << image_urls, subtitles, full_video_duration, actual_max_start_time,
                    random_start_time, end_time, selected, imgVars, frameVars,
                    short_created >>
    /\ UNCHANGED pureVars

\* video-gen.py:255-256
LoadVideo ==
    /\ mpc = "call" /\ pc = "load_video"
    /\ full_video_duration' = footage_duration
    /\ handles' = Bound(handles, "main_video_clip")
    /\ pc' = "select"
    /\ UNCHANGED << mainVars, envVars >>
    /\ UNCHANGED << image_urls, subtitles, audio_duration, actual_max_start_time,
                    random_start_time, end_time, selected, imgVars, frameVars,
                    short_created >>
    /\ UNCHANGED pureVars

\* video-gen.py:260-284  the segment selector
SelectSegment ==
    /\ mpc = "call" /\ pc = "select"
    /\ LET m == ActualMaxStartTime(full_video_duration, audio_duration)
       IN  /\ actual_max_start_time' = m
           /\ IF DurationMismatch(m)
              THEN /\ pc' = "mismatch"
                   /\ UNCHANGED << random_start_time, end_time, selected >>
              ELSE /\ \E S \in StartTimes(m, full_video_duration, audio_duration) :
                        /\ random_start_time' = S
                        /\ end_time' = EndTime(S, audio_duration, full_video_duration)
                   /\ selected' = TRUE
                   /\ pc' = "subclip"
    /\ UNCHANGED << mainVars, envVars >>
    /\ UNCHANGED << image_urls, subtitles, handles, audio_duration, full_video_duration,
                    imgVars, frameVars, short_created >>
    /\ UNCHANGED pureVars

\* video-gen.py:266-269  the duration-mismatch return: main_video_clip and
\* audio_clip are closed, in this order; a close that raises (the k-th)
\* enters the handler of line 525
MismatchReturn ==
    /\ mpc = "call" /\ pc = "mismatch"
    /\ \E k \in 0..2 :
        IF k = 0
        THEN /\ handles' = Closed(handles, {1, 2})
             /\ Return(FALSE)
        ELSE /\ handles' = IF k = 1 THEN handles ELSE Closed(handles, {2})
             /\ pc' = "except"
             /\ UNCHANGED << mainVars, envVars >>
             /\ UNCHANGED << image_urls, subtitles, segVars, imgVars, frameVars,
                             short_created >>
    /\ UNCHANGED pureVars

\* video-gen.py:286-288  subclip and set_audio
Subclip ==
    /\ mpc = "call" /\ pc = "subclip"
    /\ handles' = Bound(handles, "video_clip")
    /\ pc' = "crop"
    /\ UNCHANGED << mainVars, envVars >>
    /\ UNCHANGED << image_urls, subtitles, segVars, imgVars, frameVars, short_created >>
    /\ UNCHANGED pureVars

\* video-gen.py:290-307
Crop ==
    /\ mpc = "call" /\ pc = "crop"
    /\ handles' = Bound(handles, "cropped_clip")
    /\ pc' = "resize"
    /\ UNCHANGED << mainVars, envVars >>
    /\ UNCHANGED << image_urls, subtitles, segVars, imgVars, frameVars, short_created >>
    /\ UNCHANGED pureVars

\* video-gen.py:309
Resize ==
    /\ mpc = "call" /\ pc = "resize"
    /\ handles' = Bound(handles, "final_clip")
    /\ pc' = "download"
    /\ UNCHANGED << mainVars, envVars >>
    /\ UNCHANGED << image_urls, subtitles, segVars, imgVars, frameVars, short_created >>
    /\ UNCHANGED pureVars

\* video-gen.py:313-327  every URL is tried; download_image raises nothing
DownloadImages ==
    /\ mpc = "call" /\ pc = "download"
    /\ \E outcome \in [1..image_urls -> DownloadOutcomes] :
        /\ temp_files' = temp_files \cup FilesOf(idx, outcome)
        /\ downloaded_image_paths' = PathsOf(idx, outcome, 1)
    /\ downloads' = image_urls
    /\ pc' = "encode"
    /\ UNCHANGED << mainVars, footage_duration, output_written >>
    /\ UNCHANGED << image_urls, subtitles, handles, segVars, frameVars, short_created >>
    /\ UNCHANGED pureVars

\* video-gen.py:492, 505  write_videofile asks the compositor for the next
\* frame of the clip, whose duration is end_time - random_start_time
DrawFrame ==
    /\ mpc = "call" /\ pc = "encode"
    /\ frame_no < end_time - random_start_time
    /\ frame' = draw_elements_on_frame(frame_no, subtitles, downloaded_image_paths,
                                    audio_duration, temp_files)
    /\ frame_no' = frame_no + 1
    /\ UNCHANGED << mainVars, envVars >>
    /\ UNCHANGED << pc, image_urls, subtitles, handles, segVars, imgVars, short_created >>
    /\ UNCHANGED pureVars

\* video-gen.py:505-514  all frames are encoded and the file is written
EncodeDone ==
    /\ mpc = "call" /\ pc = "encode"
    /\ frame_no = end_time - random_start_time
    /\ output_written' = output_written \cup {idx}
    /\ pc' = "close"
    /\ UNCHANGED << mainVars, footage_duration, temp_files >>
    /\ UNCHANGED << image_urls, subtitles, handles, segVars, imgVars, frameVars,
                    short_created >>
    /\ UNCHANGED pureVars

\* video-gen.py:516-523  the five closes of the success path, then return
\* True; a close that raises (the k-th) enters the handler of line 525
CloseAll ==
    /\ mpc = "call" /\ pc = "close"
    /\ \E k \in 0..Len(ClipNames) :
        IF k = 0
        THEN /\ handles' = Closed(handles, 1..Len(ClipNames))
             /\ Return(TRUE)
        ELSE /\ handles' = Closed(handles, 1..(k - 1))
             /\ pc' = "except"
             /\ UNCHANGED << mainVars, envVars >>
             /\ UNCHANGED << image_urls, subtitles, segVars, imgVars, frameVars,
                             short_created >>
    /\ UNCHANGED pureVars

\* the statements of the try block (lines 250-514) that open, derive or
\* encode media
RaisingStages == {"load_audio", "load_video", "subclip", "crop", "resize", "encode"}

\* video-gen.py:525  a statement of the try block raises
StageRaises ==
    /\ mpc = "call" /\ pc \in RaisingStages
    /\ pc' = "except"
    /\ UNCHANGED << mainVars, envVars >>
    /\ UNCHANGED << image_urls, subtitles, handles, segVars, imgVars, frameVars,
                    short_created >>
    /\ UNCHANGED pureVars

\* video-gen.py:525-539  the handler: the bound clips are closed inside one
\* try, so the first close that raises (clip k) leaves the later ones
\* unclosed; return False
ExceptHandler ==
    /\ mpc = "call" /\ pc = "except"
    /\ \E k \in 0..Len(ClipNames) :
        /\ k > 0 => handles[ClipNames[k]] # "unbound"
        /\ handles' = HandlerCloses(handles, k)
    /\ Return(FALSE)
    /\ UNCHANGED pureVars

Next ==
    \/ SkipProcessed \/ BeginFile \/ ReadArticle \/ ReadArticleRaises
    \/ LogResult \/ Finish
    \/ CleanStart \/ ParseSrt \/ ParseSrtRaises \/ LoadAudio \/ LoadVideo
    \/ SelectSegment \/ MismatchReturn \/ Subclip \/ Crop \/ Resize
    \/ DownloadImages \/ DrawFrame \/ EncodeDone \/ CloseAll
    \/ StageRaises \/ ExceptHandler

Spec == Init /\ [][Next]_vars

\* ------------------------------------------- the compositor on its own
\* draw_elements_on_frame applied to any cue sequence at any time of a clip
\* that lasts MaxCueTime + 1 seconds
InitFrame ==
    /\ mpc = "compositor"
    /\ idx = 1
    /\ audio_files = [i \in 1..NumFiles |-> "t1"]
    /\ processed_shorts_titles = {}
    /\ tracking_log = <<>>
    /\ results = <<>>
    /\ footage_duration = 5 * MaxFootage
    /\ temp_files = {}
    /\ output_written = {}
    /\ pc = "encode"
    /\ image_urls = 0
    /\ subtitles \in CueSeqs
    /\ handles = Unbound
    /\ audio_duration = MaxCueTime + 1
    /\ full_video_duration = 0
    /\ actual_max_start_time = 0
    /\ random_start_time = 0
    /\ end_time = 0
    /\ selected = FALSE
    /\ downloaded_image_paths = <<>>
    /\ downloads = 0
    /\ frame_no = 0
    /\ frame = NoFrame
    /\ short_created = FALSE
    /\ PureIdle

\* video-gen.py:329-490  one call of draw_elements_on_frame at any time t
ComposeFrame ==
    /\ mpc = "compositor"
    /\ \E t \in 0..(audio_duration - 1) :
        frame' = draw_elements_on_frame(t, subtitles, downloaded_image_paths,
                                        audio_duration, temp_files)
    /\ UNCHANGED << mainVars, envVars >>
    /\ UNCHANGED << pc, image_urls, subtitles, handles, segVars, imgVars, frame_no,
                    short_created >>
    /\ UNCHANGED pureVars

NextFrame == ComposeFrame

SpecFrame == InitFrame /\ [][NextFrame]_vars

\* ------------------------------------- the image cycle on its own
\* no batch is running: the state of __main__ is left at its start
NoBatch(tag) ==
    /\ mpc = tag
    /\ idx = 1
    /\ audio_files = [i \in 1..NumFiles |-> "t1"]
    /\ processed_shorts_titles = {}
    /\ tracking_log = <<>>
    /\ results = <<>>
    /\ footage_duration = 5 * MaxFootage
    /\ output_written = {}

\* the closure of draw_elements_on_frame in a job that downloaded n images,
\* all of them in the temporary directory, with cues subs and narration A
Closure(subs, n, A) ==
    /\ temp_files = {<<1, u>> : u \in 1..n}
    /\ pc = "encode"
    /\ image_urls = n
    /\ subtitles = subs
    /\ handles = Unbound
    /\ audio_duration = A
    /\ full_video_duration = 0
    /\ actual_max_start_time = 0
    /\ random_start_time = 0
    /\ end_time = 0
    /\ selected = FALSE
    /\ downloaded_image_paths = [u \in 1..n |-> <<1, u>>]
    /\ downloads = n
    /\ frame_no = 0
    /\ frame = NoFrame
    /\ short_created = FALSE

InitImage ==
    /\ NoBatch("images")
    /\ \E n \in 1..MaxImages, A \in 1..MaxClip : Closure(<<>>, n, A)
    /\ PureIdle

\* video-gen.py:329-490  one call of draw_elements_on_frame at any time t of
\* the clip; the frame it returns is remembered
ComposeImage ==
    /\ mpc \in {"images", "storage"}
    /\ \E t \in 0..(audio_duration - 1) :
        /\ frame' = draw_elements_on_frame(t, subtitles, downloaded_image_paths,
                                           audio_duration, temp_files)
        /\ rendered' = rendered \cup {frame'}
    /\ UNCHANGED << mainVars, envVars >>
    /\ UNCHANGED << pc, image_urls, subtitles, handles, segVars, imgVars, frame_no,
                    short_created >>
    /\ UNCHANGED << text, max_width, lines, srt_blocks, srt_file >>
    /\ UNCHANGED << time_str, seconds, formatted >>
    /\ UNCHANGED << original_size, target_size, crop_box, final_size >>
    /\ UNCHANGED extraVars

NextImage == ComposeImage

SpecImage == InitImage /\ [][NextImage]_vars

\* ------------------------------ the compositor and the file system
InitStorage ==
    /\ NoBatch("storage")
    /\ \E subs \in JobCueSeqs, n \in 0..MaxUrls : Closure(subs, n, MaxCueTime + 1)
    /\ PureIdle

\* video-gen.py:33, 380  TEMP_IMAGE_DIRECTORY is a directory of the file
\* system: between two calls a file of it is removed, or put back
StorageChange ==
    /\ mpc = "storage"
    /\ \E u \in 1..Len(downloaded_image_paths) :
        temp_files' = IF downloaded_image_paths[u] \in temp_files
                      THEN temp_files \ {downloaded_image_paths[u]}
                      ELSE temp_files \cup {downloaded_image_paths[u]}
    /\ UNCHANGED << mainVars, footage_duration, output_written, jobVars >>
    /\ UNCHANGED pureVars

NextStorage == ComposeImage \/ StorageChange

SpecStorage == InitStorage /\ [][NextStorage]_vars

\* ------------------------------------------ text layout on its own
InitWrap ==
    /\ NoBatch("wrap")
    /\ temp_files = {}
    /\ JobIdle
    /\ text \in SeqsUpTo(Chars, MaxText)
    /\ max_width \in 0..MaxWidth
    /\ lines = <<>>
    /\ rendered = {}
    /\ ParseIdle
    /\ TimeIdle
    /\ CropIdle
    /\ ExtraIdleExcept("")

\* video-gen.py:352, 430  one call of dynamic_wrap_text
Wrap ==
    /\ mpc = "wrap"
    /\ lines' = dynamic_wrap_text(text, max_width)
    /\ mpc' = "wrapped"
    /\ UNCHANGED << idx, audio_files, processed_shorts_titles, tracking_log, results >>
    /\ UNCHANGED << envVars, jobVars, text, max_width, rendered, srt_blocks, srt_file >>
    /\ UNCHANGED << time_str, seconds, formatted >>
    /\ UNCHANGED << original_size, target_size, crop_box, final_size >>
    /\ UNCHANGED extraVars

NextWrap == Wrap

SpecWrap == InitWrap /\ [][NextWrap]_vars

\* ------------------------------------------- the parser on its own
InitParse ==
    /\ NoBatch("parse")
    /\ temp_files = {}
    /\ JobIdle
    /\ WrapIdle
    /\ rendered = {}
    /\ TimeIdle
    /\ CropIdle
    /\ ExtraIdleExcept("")
    /\ srt_blocks \in SeqsUpTo(BlockDescs, MaxBlocks)
    /\ \/ \E trailing \in BOOLEAN : srt_file = File(FileLines(srt_blocks, trailing))
       \/ srt_blocks = <<>> /\ srt_file = NoFile

\* video-gen.py:246  one call of parse_srt
Parse ==
    /\ mpc = "parse"
    /\ subtitles' = parse_srt(srt_file)
    /\ mpc' = "parsed"
    /\ UNCHANGED << idx, audio_files, processed_shorts_titles, tracking_log, results >>
    /\ UNCHANGED << envVars, pc, image_urls, handles, segVars, imgVars, frameVars,
                    short_created >>
    /\ UNCHANGED pureVars

NextParse == Parse

SpecParse == InitParse /\ [][NextParse]_vars

\* ------------------------------------- the time stamps on their own
InitTime ==
    /\ NoBatch("time")
    /\ temp_files = {}
    /\ JobIdle
    /\ WrapIdle
    /\ rendered = {}
    /\ ParseIdle
    /\ CropIdle
    /\ ExtraIdleExcept("")
    /\ \E h \in 0..MaxHours, mi \in {0, 59}, s \in {0, 1, 59}, ms \in 0..999 :
        time_str = StampStr(<< h, mi, s, ms >>)
    /\ seconds = Double(0, 0)
    /\ formatted = <<>>

\* video-gen.py:145  srt_time_to_seconds(start_time_str)
ToSeconds ==
    /\ mpc = "time"
    /\ seconds' \in Doubles(srt_time_to_seconds(time_str).value)
    /\ mpc' = "seconds"
    /\ UNCHANGED << idx, audio_files, processed_shorts_titles, tracking_log, results >>
    /\ UNCHANGED << envVars, jobVars, text, max_width, lines, rendered, srt_blocks,
                    srt_file, time_str, formatted >>
    /\ UNCHANGED << original_size, target_size, crop_box, final_size >>
    /\ UNCHANGED extraVars

\* transcript-gen.py:21  format_time_for_srt(seconds)
Format ==
    /\ mpc = "seconds"
    /\ formatted' = format_time_for_srt(seconds)
    /\ mpc' = "formatted"
    /\ UNCHANGED << idx, audio_files, processed_shorts_titles, tracking_log, results >>
    /\ UNCHANGED << envVars, jobVars, text, max_width, lines, rendered, srt_blocks,
                    srt_file, time_str, seconds >>
    /\ UNCHANGED << original_size, target_size, crop_box, final_size >>
    /\ UNCHANGED extraVars

NextTime == ToSeconds \/ Format

SpecTime == InitTime /\ [][NextTime]_vars

\* ---------------------------------- the aspect normalizer on its own
InitCrop ==
    /\ NoBatch("crop")
    /\ temp_files = {}
    /\ JobIdle
    /\ WrapIdle
    /\ rendered = {}
    /\ ParseIdle
    /\ TimeIdle
    /\ ExtraIdleExcept("")
    /\ original_size \in (1..MaxSide) \X (1..MaxSide)
    /\ target_size \in (1..MaxTarget) \X (1..MaxTarget)
    /\ crop_box = NoBox
    /\ final_size = << 0, 0 >>

\* video-gen.py:290-307  the crop to the target aspect ratio
CropClip ==
    /\ mpc = "crop"
    /\ crop_box' = CropBox(original_size[1], original_size[2],
                           target_size[1], target_size[2])
    /\ mpc' = "cropped"
    /\ UNCHANGED << idx, audio_files, processed_shorts_titles, tracking_log, results >>
    /\ UNCHANGED << envVars, jobVars, text, max_width, lines, rendered, srt_blocks,
                    srt_file, time_str, seconds, formatted >>
    /\ UNCHANGED << original_size, target_size, final_size >>
    /\ UNCHANGED extraVars

\* video-gen.py:309  cropped_clip.resize(newsize=(target_width, target_height))
ResizeClip ==
    /\ mpc = "cropped"
    /\ final_size' = target_size
    /\ mpc' = "resized"
    /\ UNCHANGED << idx, audio_files, processed_shorts_titles, tracking_log, results >>
    /\ UNCHANGED << envVars, jobVars, text, max_width, lines, rendered, srt_blocks,
                    srt_file, time_str, seconds, formatted >>
    /\ UNCHANGED << original_size, target_size, crop_box >>
    /\ UNCHANGED extraVars

NextCrop == CropClip \/ ResizeClip

SpecCrop == InitCrop /\ [][NextCrop]_vars

\* ---------------------------- the image downloads of a job on their own
\* a job of the batch that reached line 313: the clips are open, a segment
\* as long as the narration is selected, no cue, up to MaxImages URLs
InitDownload ==
    /\ mpc = "call"
    /\ idx = 1
    /\ audio_files = [i \in 1..NumFiles |-> "t1"]
    /\ processed_shorts_titles = {}
    /\ tracking_log = <<>>
    /\ results = <<>>
    /\ footage_duration = MaxClip
    /\ temp_files = {}
    /\ output_written = {}
    /\ pc = "download"
    /\ image_urls \in 0..MaxImages
    /\ subtitles = <<>>
    /\ handles = [c \in ClipSet |-> "open"]
    /\ audio_duration \in 1..MaxClip
    /\ full_video_duration = MaxClip
    /\ actual_max_start_time = 0
    /\ random_start_time = 0
    /\ end_time = audio_duration
    /\ selected = TRUE
    /\ downloaded_image_paths = <<>>
    /\ downloads = 0
    /\ frame_no = 0
    /\ frame = NoFrame
    /\ short_created = FALSE
    /\ PureIdle

NextDownload == DownloadImages \/ DrawFrame \/ EncodeDone

SpecDownload == InitDownload /\ [][NextDownload]_vars

\* -------------------------- two workers of create_youtube_short at once
\* each worker runs create_youtube_short for a job of its own; of the call
\* the steps that touch TEMP_IMAGE_DIRECTORY are kept: the clean of line 244,
\* the downloads, the frames and the clean of the finally
Workers == 1..NumWorkers

InitWorkers ==
    /\ NoBatch("workers")
    /\ temp_files = {}
    /\ JobIdle
    /\ FunctionsIdle
    /\ ExtraIdleExcept("worker")
    /\ wpc = [w \in Workers |-> "clean"]
    /\ wpaths = [w \in Workers |-> <<>>]
    /\ wframes = [w \in Workers |-> <<>>]

\* video-gen.py:244  clean_temp_images(TEMP_IMAGE_DIRECTORY)
WorkerClean(w) ==
    /\ wpc[w] = "clean"
    /\ temp_files' = clean_temp_images(temp_files)
    /\ wpc' = [wpc EXCEPT ![w] = "download"]
    /\ UNCHANGED << wpaths, wframes >>

\* video-gen.py:313-327  the downloads of the worker's job
WorkerDownload(w) ==
    /\ wpc[w] = "download"
    /\ \E outcome \in [1..MaxUrls -> DownloadOutcomes] :
        /\ temp_files' = temp_files \cup FilesOf(w, outcome)
        /\ wpaths' = [wpaths EXCEPT ![w] = PathsOf(w, outcome, 1)]
    /\ wpc' = [wpc EXCEPT ![w] = "encode"]
    /\ UNCHANGED wframes

\* video-gen.py:492, 505  the next frame of a clip of MaxAudio + 1 seconds
WorkerFrame(w) ==
    /\ wpc[w] = "encode"
    /\ Len(wframes[w]) < MaxAudio + 1
    /\ wframes' = [wframes EXCEPT ![w] =
                       Append(@, draw_elements_on_frame(Len(@), <<>>, wpaths[w],
                                                        MaxAudio + 1, temp_files).image)]
    /\ UNCHANGED << temp_files, wpc, wpaths >>

\* video-gen.py:505-523  the video is written, the clips are closed
WorkerEncoded(w) ==
    /\ wpc[w] = "encode"
    /\ Len(wframes[w]) = MaxAudio + 1
    /\ wpc' = [wpc EXCEPT ![w] = "finally"]
    /\ UNCHANGED << temp_files, wpaths, wframes >>

\* video-gen.py:538-539  finally: clean_temp_images(TEMP_IMAGE_DIRECTORY)
WorkerFinally(w) ==
    /\ wpc[w] = "finally"
    /\ temp_files' = clean_temp_images(temp_files)
    /\ wpc' = [wpc EXCEPT ![w] = "returned"]
    /\ UNCHANGED << wpaths, wframes >>

WorkerStep(w) ==
    \/ WorkerClean(w) \/ WorkerDownload(w) \/ WorkerFrame(w)
    \/ WorkerEncoded(w) \/ WorkerFinally(w)

NextWorkers ==
    /\ mpc = "workers"
    /\ \E w \in Workers : WorkerStep(w)
    /\ UNCHANGED << mainVars, footage_duration, output_written, jobVars >>
    /\ UNCHANGED << text, max_width, lines, rendered, srt_blocks, srt_file,
                    time_str, seconds, formatted,
                    original_size, target_size, crop_box, final_size >>
    /\ ExtraUnchangedExcept("worker")

SpecWorkers == InitWorkers /\ [][NextWorkers]_vars

\* ------------------------------------ the output file name on its own
TitleStrs == SeqsUpTo(TitleChars, MaxTitle)

InitTitle ==
    /\ NoBatch("title")
    /\ temp_files = {}
    /\ JobIdle
    /\ FunctionsIdle
    /\ ExtraIdleExcept("name")
    /\ original_title = <<>>
    /\ text_filename = <<>>
    /\ audio_filename = <<>>
    /\ article_title \in TitleStrs
    /\ output_filename = <<>>
    /\ description_filename = <<>>

\* video-gen.py:501-502  the output file name of create_youtube_short
BuildOutputName ==
    /\ mpc = "title"
    /\ output_filename' = OutputFilename(article_title)
    /\ mpc' = "named"
    /\ UNCHANGED << batchVars, envVars, jobVars >>
    /\ UNCHANGED << text, max_width, lines, rendered, srt_blocks, srt_file,
                    time_str, seconds, formatted,
                    original_size, target_size, crop_box, final_size >>
    /\ UNCHANGED << original_title, text_filename, audio_filename, article_title,
                    description_filename >>
    /\ ExtraUnchangedExcept("name")

NextTitle == BuildOutputName

SpecTitle == InitTitle /\ [][NextTitle]_vars

\* --------------------------- one title through the stages of the workflow
InitNames ==
    /\ NoBatch("names")
    /\ temp_files = {}
    /\ JobIdle
    /\ FunctionsIdle
    /\ ExtraIdleExcept("name")
    /\ original_title \in TitleStrs \ {<<>>}     \* ai-api-calls.py:239
    /\ text_filename = <<>>
    /\ audio_filename = <<>>
    /\ article_title = <<>>
    /\ output_filename = <<>>
    /\ description_filename = <<>>

NamesUnchanged ==
    /\ UNCHANGED << mpc, batchVars, envVars, jobVars >>
    /\ UNCHANGED << text, max_width, lines, rendered, srt_blocks, srt_file,
                    time_str, seconds, formatted,
                    original_size, target_size, crop_box, final_size >>
    /\ ExtraUnchangedExcept("name")

\* ai-api-calls.py:145-165  save_rephrased_text_for_subtitles
SaveRephrasedText ==
    /\ mpc = "names"
    /\ text_filename = <<>>
    /\ text_filename' = SanitizedTitle(original_title) \o RephrasedSuffix
    /\ UNCHANGED << original_title, audio_filename, article_title,
                    output_filename, description_filename >>
    /\ NamesUnchanged

\* ai-api-calls.py:171-211  generate_wavenet_audio, called once the text is
\* saved (lines 256-260)
GenerateAudio ==
    /\ mpc = "names"
    /\ text_filename # <<>>
    /\ audio_filename = <<>>
    /\ audio_filename' = SanitizedTitle(original_title) \o << ".", "m", "p", "3" >>
    /\ UNCHANGED << original_title, text_filename, article_title,
                    output_filename, description_filename >>
    /\ NamesUnchanged

\* video-gen.py:553-556, 501-502  the video stage takes the title from the
\* name of the audio file and names the video after it
VideoStage ==
    /\ mpc = "names"
    /\ audio_filename # <<>>
    /\ output_filename = <<>>
    /\ article_title' = splitext(audio_filename)
    /\ output_filename' = OutputFilename(article_title')
    /\ UNCHANGED << original_title, text_filename, audio_filename,
                    description_filename >>
    /\ NamesUnchanged

\* youtube-upload.py:231-242  the uploader derives the name of the
\* description file from the name of the video file
DeriveDescriptionName ==
    /\ mpc = "names"
    /\ output_filename # <<>>
    /\ description_filename = <<>>
    /\ description_filename' =
           removesuffix(splitext(output_filename), ShortSuffix) \o RephrasedSuffix
    /\ UNCHANGED << original_title, text_filename, audio_filename, article_title,
                    output_filename >>
    /\ NamesUnchanged

NextNames ==
    \/ SaveRephrasedText
    \/ GenerateAudio
    \/ VideoStage
    \/ DeriveDescriptionName

SpecNames == InitNames /\ [][NextNames]_vars

\* ------------------------------------------ the layout of one frame
\* a line of the cue that fits and a single word wider than the frame
LineWidths == {400, 1200}

Overlays ==
    {[kind |-> "none", w |-> 0, h |-> 0], [kind |-> "failed", w |-> 0, h |-> 0]}
    \cup {[kind |-> "drawn", w |-> w, h |-> h] : w, h \in 1..MaxOverlaySide}

InitLayout ==
    /\ NoBatch("layout")
    /\ temp_files = {}
    /\ JobIdle
    /\ FunctionsIdle
    /\ ExtraIdleExcept("layout")
    /\ title_line_count \in 0..MaxTitleLines
    /\ overlay \in Overlays
    /\ subtitle_line_widths \in SeqsUpTo(LineWidths, MaxSubtitleLines)
    /\ frame_layout = [drawn |-> FALSE]

\* video-gen.py:327-487  one call of draw_elements_on_frame
DrawLayers ==
    /\ mpc = "layout"
    /\ frame_layout' = Layout(title_line_count, overlay, subtitle_line_widths)
    /\ mpc' = "drawn"
    /\ UNCHANGED << batchVars, envVars, jobVars >>
    /\ UNCHANGED << text, max_width, lines, rendered, srt_blocks, srt_file,
                    time_str, seconds, formatted,
                    original_size, target_size, crop_box, final_size >>
    /\ UNCHANGED << title_line_count, overlay, subtitle_line_widths >>
    /\ ExtraUnchangedExcept("layout")

NextLayout == DrawLayers

SpecLayout == InitLayout /\ [][NextLayout]_vars

\* ------------------------------------------ the cues of one alignment
\* a plain word and one that ends a sentence
AlignedWords == {<< "a" >>, << "a", "?" >>}

\* milliseconds a word lasts, and the pauses after a word: one below and one
\* above the threshold
WordMillis == 100
Pauses == {100, 400}

RECURSIVE Timed(_, _)
\* the words spoken one after the other from time t on
Timed(spoken, t) ==
    IF spoken = <<>> THEN <<>>
    ELSE << [word |-> Head(spoken)[1], time_start |-> t, time_end |-> t + WordMillis] >>
         \o Timed(Tail(spoken), t + WordMillis + Head(spoken)[2])

InitAlign ==
    /\ NoBatch("align")
    /\ temp_files = {}
    /\ JobIdle
    /\ FunctionsIdle
    /\ ExtraIdleExcept("align")
    /\ \E spoken \in SeqsUpTo(AlignedWords \X Pauses, MaxWords) :
          words_with_timestamps = Timed(spoken, 0)
    /\ srt_entries = <<>>

\* transcript-gen.py:29-99  one call of create_srt_from_alignment
CreateSrt ==
    /\ mpc = "align"
    /\ srt_entries' = create_srt_from_alignment(words_with_timestamps)
    /\ mpc' = "aligned"
    /\ UNCHANGED << batchVars, envVars, jobVars >>
    /\ UNCHANGED << text, max_width, lines, rendered, srt_blocks, srt_file,
                    time_str, seconds, formatted,
                    original_size, target_size, crop_box, final_size >>
    /\ UNCHANGED words_with_timestamps
    /\ ExtraUnchangedExcept("align")

NextAlign == CreateSrt

SpecAlign == InitAlign /\ [][NextAlign]_vars

\* ------------------------------------ the image URLs of one article
\* URLs without white space or comma
Urls == {<< scheme, host >> : scheme \in {"http://", "https://"}, host \in {"a", "b"}}

InitArticle ==
    /\ NoBatch("article")
    /\ temp_files = {}
    /\ JobIdle
    /\ FunctionsIdle
    /\ ExtraIdleExcept("article")
    /\ scraped_image_urls \in SeqsUpTo(Urls, MaxImageUrls)
    /\ article_content = <<>>
    /\ extracted_urls = <<>>

ArticleUnchanged ==
    /\ UNCHANGED << batchVars, envVars, jobVars >>
    /\ UNCHANGED << text, max_width, lines, rendered, srt_blocks, srt_file,
                    time_str, seconds, formatted,
                    original_size, target_size, crop_box, final_size >>
    /\ ExtraUnchangedExcept("article")

\* scraper.py:52-89  save_article_to_file
SaveArticle ==
    /\ mpc = "article"
    /\ article_content' = ArticleFile(scraped_image_urls)
    /\ mpc' = "saved"
    /\ UNCHANGED << scraped_image_urls, extracted_urls >>
    /\ ArticleUnchanged

\* video-gen.py:58-68  extract_image_urls_from_article on the saved text
ExtractUrls ==
    /\ mpc = "saved"
    /\ extracted_urls' = extract_image_urls_from_article(article_content)
    /\ mpc' = "extracted"
    /\ UNCHANGED << scraped_image_urls, article_content >>
    /\ ArticleUnchanged

NextArticle == SaveArticle \/ ExtractUrls

SpecArticle == InitArticle /\ [][NextArticle]_vars

\* ===================================================================
\* Properties
\* ===================================================================
InJob == mpc = "call"

\* both durations are loaded and the statements of lines 260-284 have run
PastSelect ==
    /\ mpc \in {"call", "log"}
    /\ full_video_duration > 0
    /\ pc # "select"

\* C1: whenever a segment is selected for a narration that fits the
\* footage (A <= F), the start offset S satisfies 0 <= S, S <= 0.8 * F and
\* S <= F - A, hence S + A <= F.
C1_StartWithinFootage ==
    (InJob /\ selected /\ audio_duration <= full_video_duration) =>
        /\ 0 <= random_start_time
        /\ 10 * random_start_time <= 8 * full_video_duration
        /\ random_start_time <= full_video_duration - audio_duration
        /\ random_start_time + audio_duration <= full_video_duration

\* a start offset that the 80 % limit, not the fit of the narration, bounds
C1_Witness ==
    /\ InJob /\ selected
    /\ random_start_time > 0
    /\ 10 * random_start_time = 8 * full_video_duration
    /\ random_start_time < full_video_duration - audio_duration

\* C2: when the narration is longer than the footage (A > F) no segment is
\* selected, no image is downloaded, no frame is composited, no output file
\* is written for the job, and the call returns False.
C2_MismatchFailsBeforeRendering ==
    (PastSelect /\ audio_duration > full_video_duration) =>
        /\ ~selected
        /\ downloads = 0
        /\ frame_no = 0
        /\ idx \notin output_written
        /\ pc \in {"mismatch", "except", "returned"}
        /\ pc = "returned" => ~short_created

C2_Witness ==
    /\ pc = "returned"
    /\ audio_duration > full_video_duration
    /\ full_video_duration > 0
    /\ ~short_created

\* C3 as stated: whenever F - A <= 0, F = A included, the job fails with a
\* duration mismatch instead of selecting a segment.
C3_Original ==
    (PastSelect /\ full_video_duration - audio_duration <= 0) => ~selected

\* C3 as amended: the job fails with a duration mismatch instead of
\* selecting a segment exactly when F - A < 0; with F = A a segment is
\* selected.
C3_MismatchIffNarrationLonger ==
    PastSelect =>
        /\ (full_video_duration - audio_duration < 0) <=> ~selected
        /\ (InJob /\ ~selected) => pc \in {"mismatch", "except"}

C3_Witness ==
    /\ InJob /\ pc = "mismatch"
    /\ full_video_duration - audio_duration < 0

\* C4: when the upper bound min(0.8 * F, F - A) is exactly zero, the start
\* offset selected is 0 and the job goes on to the rendering stages.
C4_ZeroBoundStartsAtZero ==
    (PastSelect /\ InJob
       /\ 8 * full_video_duration >= 0
       /\ full_video_duration - audio_duration >= 0
       /\ (8 * full_video_duration = 0 \/ full_video_duration - audio_duration = 0)) =>
        /\ selected
        /\ random_start_time = 0
        /\ pc # "mismatch"

C4_Witness ==
    /\ InJob /\ pc = "encode" /\ frame_no > 0
    /\ full_video_duration = audio_duration
    /\ random_start_time = 0

\* C5: in every job that reaches encoding, the footage segment is exactly
\* as long as the narration (end_time - random_start_time = A), and a
\* finished encoding has composited a frame for each of its A seconds.
C5_ClipAsLongAsNarration ==
    (InJob /\ pc \in {"encode", "close"}) =>
        /\ end_time - random_start_time = audio_duration
        /\ pc = "close" => frame_no = audio_duration

C5_Witness ==
    /\ InJob /\ pc = "close"
    /\ random_start_time > 0
    /\ random_start_time + audio_duration = full_video_duration
    /\ frame_no = audio_duration

\* C6: when create_youtube_short has returned, every media handle the job
\* opened is closed.
C6_AllHandlesClosedOnReturn ==
    pc = "returned" => \A c \in ClipSet : handles[c] # "open"

C8_FailureEndsOnlyThatJob ==
    mpc # "crashed"

RECURSIVE CreatedTitles(_)
\* the titles of the calls that returned True, in call order
CreatedTitles(rs) ==
    IF rs = <<>> THEN <<>>
    ELSE (IF rs[1].created THEN << rs[1].title >> ELSE <<>>) \o CreatedTitles(Tail(rs))

\* the calls whose result the loop has used
Used(rs) == IF mpc = "log" THEN SubSeq(rs, 1, Len(rs) - 1) ELSE rs

\* C9: the tracking log holds the titles of exactly the jobs that returned
\* success, in job order, as soon as the loop leaves the job: also while a
\* later job runs, after it failed and after the batch crashed.
C9_LogHoldsExactlyTheCreated ==
    /\ tracking_log = CreatedTitles(Used(results))
    /\ mpc \in {"read_article", "call"} => \A i \in 1..Len(results) : results[i].job < idx

\* a later job has failed, or its file crashed the batch, after a job that
\* was created and logged
C9_Witness ==
    /\ Len(tracking_log) = 1
    /\ \/ mpc = "loop" /\ Len(results) = 2 /\ results[1].created /\ ~results[2].created
       \/ mpc = "crashed" /\ Len(results) = 1 /\ results[1].created

\* the cues active at t, by position
ActiveAt(subs, t) == {i \in 1..Len(subs) : subs[i].start <= t /\ t < subs[i].end}

FirstOf(S) == CHOOSE i \in S : \A j \in S : i <= j

\* C10: the frame composited at time t shows the text of the first cue, in
\* sequence order, with start <= t < end, and nothing of any other cue; a
\* scrim is drawn exactly with a text; with no such cue the frame has no
\* subtitle text and no scrim.
C10_FirstActiveCueOnly ==
    frame.t >= 0 =>
        LET active == ActiveAt(subtitles, frame.t)
        IN  /\ active = {} => (frame.subtitle = "" /\ ~frame.scrim)
            /\ active # {} => frame.subtitle = subtitles[FirstOf(active)].text
            /\ frame.scrim <=> frame.subtitle # ""

\* two cues with different texts are active at t and the first is shown
C10_Witness ==
    /\ mpc = "compositor"
    /\ frame.t >= 0
    /\ Cardinality(ActiveAt(subtitles, frame.t)) = 2
    /\ subtitles[1].text # subtitles[2].text
    /\ frame.subtitle = subtitles[1].text
    /\ frame.scrim

\* C11: with N >= 1 images and narration A, the frame composited at a time t
\* of [0, A) uses the image of index k in 0..N-1 for which
\* k*A/N <= t < (k+1)*A/N, and only that one; over the frames composited the
\* index never decreases as t grows.
C11_ImageIndexStepFunction ==
    LET N == Len(downloaded_image_paths)
        A == audio_duration
    IN  /\ \A f \in rendered :
            /\ f.image - 1 \in 0..(N - 1)
            /\ \A k \in 0..(N - 1) :
                 f.image - 1 = k <=> (k * A <= f.t * N /\ f.t * N < (k + 1) * A)
        /\ \A f, g \in rendered : f.t <= g.t => f.image <= g.image

\* every frame of a 6 s clip with 3 images is composited: all three images
\* are shown, the second one exactly at t = 2 and t = 3
C11_Witness ==
    /\ mpc = "images"
    /\ Len(downloaded_image_paths) = 3 /\ audio_duration = 6
    /\ {f.t : f \in rendered} = 0..5
    /\ {f.t : f \in {g \in rendered : g.image = 2}} = {2, 3}
    /\ {f.image : f \in rendered} = 1..3

\* C20: two calls of the compositor at the same time t give the same frame,
\* whatever calls at other times and whatever changes of the file system
\* happen in between.
C20_SameFrameAtSameTime ==
    \A f, g \in rendered : f.t = g.t => f = g

\* C12: every line returned by dynamic_wrap_text that holds two or more
\* words measures at most max_width, and a returned line that measures more
\* than max_width consists of exactly one word.
C12_OnlySingleWordsOverflow ==
    mpc = "wrapped" =>
        \A i \in 1..Len(lines) :
            /\ Len(split(lines[i])) >= 2 => textbbox(lines[i]) <= max_width
            /\ textbbox(lines[i]) > max_width => Len(split(lines[i])) = 1

\* a text wrapped to a line of two words that fits and a line that is one
\* word wider than max_width
C12_Witness ==
    /\ mpc = "wrapped"
    /\ max_width > 0
    /\ \E i, j \in 1..Len(lines) :
        /\ Len(split(lines[i])) = 2
        /\ textbbox(lines[j]) > max_width

RECURSIVE WordsOfLines(_)
\* the words of a list of lines, read line after line
WordsOfLines(ls) == IF ls = <<>> THEN <<>> ELSE split(Head(ls)) \o WordsOfLines(Tail(ls))

\* C13: the words of the lines returned by dynamic_wrap_text, read line after
\* line, are the white-space separated words of the text in their order; no
\* line is empty, and an empty text gives no lines.
C13_WordsKeptInOrder ==
    mpc = "wrapped" =>
        /\ WordsOfLines(lines) = split(text)
        /\ \A i \in 1..Len(lines) : lines[i] # <<>>
        /\ text = <<>> => lines = <<>>

\* a text of two words with leading and doubled white space, wrapped to two
\* lines, the second one a word wider than max_width
C13_Witness ==
    /\ mpc = "wrapped"
    /\ text = << " ", "a", " ", " ", "b", "a" >>
    /\ max_width = 2
    /\ lines = << << "a" >>, << "b", "a" >> >>

\* a block as the format wants it
WellFormed(b) == b.index = "int" /\ b.range = "good" /\ Len(b.text) >= 1

\* the cue a well-formed block stands for
ExpectedCue(b) == Cue(Millis(b.from), Millis(b.to), join(b.text))

RECURSIVE ExpectedCues(_)
\* the cues of the well-formed blocks, in order
ExpectedCues(blocks) ==
    IF blocks = <<>> THEN <<>>
    ELSE (IF WellFormed(Head(blocks)) THEN << ExpectedCue(Head(blocks)) >> ELSE <<>>)
         \o ExpectedCues(Tail(blocks))

\* C14: for a file of well-formed blocks parse_srt returns one cue per block
\* in input order, with start and end H*3600 + M*60 + S + ms/1000 and the
\* text lines joined by single spaces, whether or not a blank line follows
\* the last block.
C14_WellFormedBlocksParsed ==
    (mpc = "parsed" /\ \A i \in 1..Len(srt_blocks) : WellFormed(srt_blocks[i])) =>
        /\ Len(subtitles) = Len(srt_blocks)
        /\ \A i \in 1..Len(srt_blocks) : subtitles[i] = ExpectedCue(srt_blocks[i])

\* the block 1 / 00:00:01,000 --> 00:00:03,500 / Hello there, ending with the
\* file, gives the cue from 1.0 s to 3.5 s with the text Hello there
C14_Witness ==
    /\ mpc = "parsed"
    /\ srt_file = File(<< << "1" >>,
                          << "0", "0", ":", "0", "0", ":", "0", "1", ",", "0", "0", "0",
                             " ", "-", "-", ">", " ",
                             "0", "0", ":", "0", "0", ":", "0", "3", ",", "5", "0", "0" >>,
                          HelloThere >>)
    /\ subtitles = << Cue(1000, 3500, HelloThere) >>

\* C15: for a file of good and malformed blocks parse_srt returns the cues
\* of exactly the well-formed blocks, in order: a block with an index that
\* is no integer or with a time range that is not HH:MM:SS,mmm --> HH:MM:SS,mmm
\* adds no cue and does not stop the parsing.
C15_MalformedBlocksSkipped ==
    mpc = "parsed" => subtitles = ExpectedCues(srt_blocks)

\* C16: for a missing cue file and for an empty one parse_srt returns no cue
\* (and raises nothing); a job that got no cue goes on, and none of its
\* frames has a subtitle text or a scrim.
C16_NoCuesNoSubtitleLayer ==
    /\ parse_srt(NoFile) = <<>>
    /\ parse_srt(File(<<>>)) = <<>>
    /\ (InJob /\ pc \notin {"clean", "parse_srt"} /\ subtitles = parse_srt(NoFile)) =>
            /\ frame.subtitle = ""
            /\ ~frame.scrim
            /\ pc = "close" => (idx \in output_written /\ frame.t >= 0)

\* a job without cues has composited its frames and written its video
C16_Witness ==
    /\ InJob /\ pc = "close"
    /\ subtitles = parse_srt(File(<<>>))
    /\ frame.t >= 0 /\ frame.subtitle = ""
    /\ idx \in output_written

\* C17: a time stamp HH:MM:SS,mmm converted to seconds by
\* srt_time_to_seconds and back by format_time_for_srt is the same time
\* stamp, to the millisecond.
C17_TimeStampRoundTrip ==
    mpc = "formatted" => formatted = time_str

\* C18: when w/h > tw/th the crop keeps the full height and the width
\* int(h * tw/th), the greatest whole number not above h * tw/th, at
\* x1 = int(w/2 - new_w/2), y1 = 0; otherwise it keeps the full width and the
\* height int(w / (tw/th)) at y1 = int(h/2 - new_h/2), x1 = 0; the cropped
\* clip is then resized to tw x th.
C18_CropRule ==
    LET w == original_size[1]
        h == original_size[2]
        tw == target_size[1]
        th == target_size[2]
        b == crop_box
    IN  /\ mpc \in {"cropped", "resized"} =>
            IF w * th > tw * h
            THEN /\ b.height = h /\ b.y1 = 0
                 /\ b.width * th <= h * tw /\ (b.width + 1) * th > h * tw
                 /\ 2 * b.x1 <= w - b.width /\ 2 * (b.x1 + 1) > w - b.width
            ELSE /\ b.width = w /\ b.x1 = 0
                 /\ b.height * tw <= w * th /\ (b.height + 1) * tw > w * th
                 /\ 2 * b.y1 <= h - b.height /\ 2 * (b.y1 + 1) > h - b.height
        /\ mpc = "resized" => final_size = target_size

\* footage of 6 x 3 cropped for a 2 x 3 target: the width 2 is kept at
\* x1 = 2, and the clip is resized to 2 x 3
C18_Witness ==
    /\ mpc = "resized"
    /\ original_size = << 6, 3 >> /\ target_size = << 2, 3 >>
    /\ crop_box = [x1 |-> 2, y1 |-> 0, width |-> 2, height |-> 3]
    /\ final_size = << 2, 3 >>

\* C19: for every positive source size and target size the crop rectangle
\* is non-empty and lies inside the source frame, and the two margins cut
\* away differ by at most one pixel.
C19_CropInsideSource ==
    LET w == original_size[1]
        h == original_size[2]
        b == crop_box
        left == b.x1
        right == w - (b.x1 + b.width)
        top == b.y1
        bottom == h - (b.y1 + b.height)
    IN  mpc \in {"cropped", "resized"} =>
            /\ b.width > 0 /\ b.height > 0
            /\ 0 <= b.x1 /\ b.x1 + b.width <= w
            /\ 0 <= b.y1 /\ b.y1 + b.height <= h
            /\ left - right \in -1..1
            /\ top - bottom \in -1..1

\* C21: a URL whose download fails or whose file is an SVG gives no path and
\* does not fail the job: the job goes on to encode and writes its video,
\* the image of a frame is the one of the period A / N over the N paths that
\* were downloaded, in URL order, and with N = 0 no frame has an image.
C21_FailedDownloadsSkipped ==
    LET N == Len(downloaded_image_paths)
        A == audio_duration
    IN  (mpc = "call" /\ downloads > 0) =>
            /\ pc \in {"encode", "close"}
            /\ N <= image_urls
            /\ \A i \in 1..N : downloaded_image_paths[i] \in temp_files
            /\ \A i, j \in 1..N :
                 i < j => downloaded_image_paths[i][2] < downloaded_image_paths[j][2]
            /\ frame.t >= 0 =>
                 IF N = 0 THEN frame.image = 0
                 ELSE /\ frame.image \in 1..N
                      /\ (frame.image - 1) * A <= frame.t * N
                      /\ frame.t * N < frame.image * A
            /\ pc = "close" => (idx \in output_written /\ frame_no = A)

\* of three URLs one gave nothing and one left a partial file: the video is
\* written, its last frame shows the only image downloaded
C21_Witness ==
    /\ mpc = "call" /\ pc = "close"
    /\ image_urls = 3
    /\ Len(downloaded_image_paths) = 1
    /\ Cardinality(temp_files) = 2
    /\ frame.image = 1
    /\ idx \in output_written

\* C22: with two workers of create_youtube_short running at once, no call of
\* clean_temp_images by one of them removes an image file that another one
\* downloaded and is still rendering with: while a worker encodes, the files
\* of its paths are in the temporary directory.
C22_TempFilesScopedPerWorker ==
    \A w \in DOMAIN wpc :
        wpc[w] = "encode" =>
            \A i \in 1..Len(wpaths[w]) : wpaths[w][i] \in temp_files

\* C23: the output file name built by create_youtube_short holds none of the
\* characters \ / * ? : " < > | that the function strips from the category
\* folder name.
C23_OutputNameHasNoUnsafeChar ==
    mpc = "named" =>
        \A i \in 1..Len(output_filename) : output_filename[i] \notin UnsafeChars

\* C29: the description file name the uploader derives from the video file
\* name equals the name under which the narration text of the title was
\* saved.
C29_DescriptionNameIsTextName ==
    (mpc = "names" /\ description_filename # <<>>) =>
        description_filename = text_filename

\* C24: dynamic_wrap_text is greedy: for every two consecutive returned
\* lines, the earlier line joined by one space with the first word of the
\* later line measures more than max_width.
C24_WrapIsGreedy ==
    mpc = "wrapped" =>
        \A k \in 1..(Len(lines) - 1) :
            textbbox(lines[k] \o << " " >> \o Head(split(lines[k + 1]))) > max_width

\* three words wrapped to a line of two words and a line of one, where the
\* third word alone would still have fitted
C24_Witness ==
    /\ mpc = "wrapped"
    /\ max_width = 3
    /\ lines = << << "a", " ", "a" >>, << "a" >> >>

\* C25: in a frame with an active cue the first subtitle line is drawn at
\* max(H - int(0.18 H) - total_subtitle_height, lower + int(0.02 H)), lower
\* being the bottom of the image with its 3% buffer when an image was drawn
\* and the bottom of the title otherwise; the title ends above the image and
\* the image ends above the subtitles.
C25_SubtitlesBelowImageAndTitle ==
    (mpc = "drawn" /\ subtitle_line_widths # <<>>) =>
        LET f == frame_layout
            lower == IF f.image_drawn
                     THEN f.image_bottom + Whole(Times(TARGET_HEIGHT, 30))
                     ELSE f.title_bottom
        IN  /\ f.subtitle_y =
                 Max2(Px(TARGET_HEIGHT) - Whole(Times(TARGET_HEIGHT, 180))
                        - TotalSubtitleHeight(Len(subtitle_line_widths)),
                      lower + Whole(Times(TARGET_HEIGHT, 20)))
            /\ f.title_bottom < f.subtitle_y
            /\ f.image_drawn =>
                  /\ f.title_bottom <= f.image_top
                  /\ f.image_bottom < f.subtitle_y

\* a frame with a title of two lines and a square image, the subtitles of
\* which are pushed down below the image
C25_Witness ==
    /\ mpc = "drawn"
    /\ title_line_count = 2
    /\ overlay = [kind |-> "drawn", w |-> 1, h |-> 1]
    /\ Len(subtitle_line_widths) = 2
    /\ frame_layout.subtitle_y =
         frame_layout.image_bottom + Whole(Times(TARGET_HEIGHT, 30))
           + Whole(Times(TARGET_HEIGHT, 20))

\* C26: the rectangle drawn behind every subtitle line lies in the frame
\* and is well formed: 0 <= x1 <= x2 <= target_width and
\* 0 <= y1 <= y2 <= target_height.
C26_BackgroundBoxInFrame ==
    mpc = "drawn" =>
        \A k \in 1..Len(frame_layout.boxes) :
            LET b == frame_layout.boxes[k]
            IN  /\ 0 <= b.x1 /\ b.x1 <= b.x2 /\ b.x2 <= Px(TARGET_WIDTH)
                /\ 0 <= b.y1 /\ b.y1 <= b.y2 /\ b.y2 <= Px(TARGET_HEIGHT)

RECURSIVE WordsBefore(_, _)
\* the number of words in the entries before entry k
WordsBefore(entries, k) ==
    IF k <= 1 THEN 0 ELSE WordsBefore(entries, k - 1) + Len(entries[k - 1].words)

\* word i of the alignment ends a cue by the rules: it is the last word, it
\* is word 5 of its cue, a pause of more than 0.3 s follows it, or it holds
\* one of . ! ?
EndsCue(ws, i, count) ==
    \/ i = Len(ws)
    \/ count = 5
    \/ (i < Len(ws) /\ ws[i + 1].time_start - ws[i].time_end > 300)
    \/ \E c \in 1..Len(ws[i].word) : ws[i].word[c] \in {".", "!", "?"}

C28_ImageUrlsRoundTrip ==
    mpc = "extracted" => extracted_urls = scraped_image_urls

\* C30: each title is rendered at most once: a title that was in the
\* tracking log when the run started is not rendered in the run, and no
\* title is rendered or logged twice in one run, also when two category
\* folders hold a file of the same name.
C30_TitleRenderedAtMostOnce ==
    /\ \A i \in 1..Len(results) : results[i].title \notin processed_shorts_titles
    /\ \A i, j \in 1..Len(results) :
          (results[i].created /\ results[j].created
             /\ results[i].title = results[j].title) => i = j
    /\ \A i, j \in 1..Len(tracking_log) :
          tracking_log[i] = tracking_log[j] => i = j

====
